---- MODULE Spec2Model ----
(***************************************************************************)
(* Payment gateway proxy and subscription billing simulator.               *)
(*                                                                         *)
(* The module models the services of the repository at the level of their  *)
(* public methods.  Every `await` of the TypeScript code is a suspension   *)
(* point: the step up to the await is one atomic action, and any other     *)
(* operation of the service may run before the continuation does.          *)
(*                                                                         *)
(*   Spec        SubscriptionService with its scheduler, sweeps and        *)
(*               cancellation; the LLMService it owns is disabled, so      *)
(*               createSubscription runs on the fallback analysis          *)
(*   SpecCreate  the POST / route and createSubscription with the          *)
(*               LLMService enabled and its external generator             *)
(*   SpecShutdown  Spec inside the server process, with its signal         *)
(*               handlers and stopBackgroundJob                            *)
(*   SpecPure    calculateNextChargeDate and the FraudDetectionService     *)
(*               methods called directly on enumerated arguments           *)
(*   SpecPay     PaymentService.processCharge with the fraud rules and     *)
(*               the LLMService it calls, charges may overlap              *)
(*   SpecScenario  one processCharge call of each documented scenario,     *)
(*               with every value of Math.random                           *)
(*   SpecRounding  one processCharge call on every valid request with      *)
(*               every value of Math.random, the LLMService disabled       *)
(*   SpecCompare FraudDetectionService called twice, to compare results    *)
(*   SpecFactors getRiskFactors and calculateRiskScore called on the same  *)
(*               ChargeRequest object                                      *)
(*   SpecRead    the read operations of PaymentService and of              *)
(*               SubscriptionService between the steps of the others       *)
(*   SpecVisible  Spec with the GET routes of /subscription-transactions   *)
(*   SpecReplace Spec with manual sweeps, where a request that has been    *)
(*               answered makes room for a later one                       *)
(*   SpecSweep   LLMService with clearExpiredCache, next to an LLMService  *)
(*               that is never swept                                       *)
(*   SpecLLM     LLMService called directly, requests may overlap          *)
(*   SpecFallback  generatePaymentExplanation called directly on scores    *)
(*               at and next to the limits of the risk levels              *)
(*   SpecSeq     LLMService called directly, one request at a time         *)
(*                                                                         *)
(* Time is an integer clock.  In Spec one unit is one day; the cache TTL   *)
(* is in the same unit (LLM_CACHE_TTL is configuration).  The clock does   *)
(* not advance inside a step: the reads of the clock that one synchronous  *)
(* piece of code makes all return the value of the step.                   *)
(***************************************************************************)
EXTENDS Integers, Sequences, FiniteSets, TLC

\* ------------------------------------------------------------------ bounds
\* the clock stops at MaxClock; at most MaxFail simulated charges fail
MaxClock == 1
MaxFail == 1

Donors == {"d1", "d2"}
ReqIntervals == {"daily", "weekly"}
CreateIntervals == {"daily", "weekly", "monthly", "yearly"}
Amounts == {1500}
CacheTTLs == {0, 1}
\* the requests and sweeps that may be in progress at once
CreateIds == {1, 2}
SweepIds == {1, 2}
ReqIds == {1, 2}
ChargeIds == {1, 2}
\* the dates calculateNextChargeDate is called with: day 0 to day MaxDate
MaxDate == 800

\* ----------------------------------------------------------- string helpers
RECURSIVE Join(_, _)
\* Array.prototype.join
Join(seq, sep) ==
  IF seq = <<>> THEN ""
  ELSE IF Len(seq) = 1 THEN seq[1]
  ELSE seq[1] \o sep \o Join(Tail(seq), sep)

\* String.prototype.includes
Includes(s, kw) ==
  \E i \in 1..(Len(s) - Len(kw) + 1) : SubSeq(s, i, i + Len(kw) - 1) = kw

Quote(s) == "\"" \o s \o "\""

RECURSIVE QuoteAll(_)
QuoteAll(seq) == IF seq = <<>> THEN <<>> ELSE <<Quote(seq[1])>> \o QuoteAll(Tail(seq))

\* a risk score is kept in thousandths; its decimal text
ScoreText(score) == ToString(score) \o "e-3"

\* Number.prototype.toFixed(2) on a score in thousandths
ToFixed2(score) ==
  LET h == (score + 5) \div 10
      frac == h % 100
  IN ToString(h \div 100) \o "." \o (IF frac < 10 THEN "0" ELSE "") \o ToString(frac)

\* String.prototype.toUpperCase on a provider name or a currency code
ToUpperCase(provider) ==
  CASE provider = "stripe" -> "STRIPE"
    [] provider = "paypal" -> "PAYPAL"
    [] provider = "blocked" -> "BLOCKED"
    [] provider = "usd" -> "USD"
    [] provider = "eur" -> "EUR"
    [] OTHER -> provider

\* ---------------------------------------------------------------- calendar
\* Day 0 is 1 January of EpochYear; a date is a day number.
EpochYear == 2024

IsLeap(y) == (y % 4 = 0 /\ y % 100 # 0) \/ y % 400 = 0
DaysInYear(y) == IF IsLeap(y) THEN 366 ELSE 365
DaysInMonth(y, m) ==
  IF m = 2 THEN (IF IsLeap(y) THEN 29 ELSE 28)
  ELSE IF m \in {4, 6, 9, 11} THEN 30 ELSE 31

RECURSIVE DaysBeforeYear(_)
DaysBeforeYear(y) == IF y <= EpochYear THEN 0 ELSE DaysBeforeYear(y - 1) + DaysInYear(y - 1)

RECURSIVE DaysBeforeMonth(_, _)
DaysBeforeMonth(y, m) == IF m <= 1 THEN 0 ELSE DaysBeforeMonth(y, m - 1) + DaysInMonth(y, m - 1)

\* new Date(y, m, d): fields out of range carry over, as setDate/setMonth do
MakeDate(y, m, d) ==
  LET yy == IF m > 12 THEN y + 1 ELSE y
      mm == IF m > 12 THEN m - 12 ELSE m
  IN DaysBeforeYear(yy) + DaysBeforeMonth(yy, mm) + (d - 1)

RECURSIVE YearOf(_, _)
YearOf(day, y) == IF day < DaysInYear(y) THEN y ELSE YearOf(day - DaysInYear(y), y + 1)
GetFullYear(date) == YearOf(date, EpochYear)

RECURSIVE MonthOf(_, _, _)
MonthOf(dayOfYear, y, m) ==
  IF dayOfYear < DaysInMonth(y, m) THEN m ELSE MonthOf(dayOfYear - DaysInMonth(y, m), y, m + 1)
GetMonth(date) == MonthOf(date - DaysBeforeYear(GetFullYear(date)), GetFullYear(date), 1)
GetDate(date) == date - MakeDate(GetFullYear(date), GetMonth(date), 1) + 1

calculateNextChargeDate_noAdvance(interval, baseDate) == baseDate

calculateNextChargeDate(interval, baseDate) ==
  LET y == GetFullYear(baseDate)
      m == GetMonth(baseDate)
      d == GetDate(baseDate)
  IN CASE interval = "daily" -> MakeDate(y, m, d + 1)
       [] interval = "weekly" -> MakeDate(y, m, d + 7)
       [] interval = "monthly" -> MakeDate(y, m + 1, d)
       [] interval = "yearly" -> MakeDate(y + 1, m, d)
       [] OTHER -> MakeDate(y, m + 1, d)

\* ------------------------------------------------------------- LLMService
\* Campaign descriptions (lower case already, so toLowerCase is the identity)
Descs == {"food and clean water for nepal", "a general fund drive"}
\* the descriptions of the subscription requests
CreateDescs == {"food and clean water for nepal"}

\* A CampaignAnalysis, or whatever else JSON.parse produced:
\*   isNull   the value is null
\*   hasTags  the value has a tags array
NullValue == [isNull |-> TRUE, hasTags |-> FALSE, tags |-> <<>>, summary |-> ""]
Analysis(tags, summary) == [isNull |-> FALSE, hasTags |-> TRUE, tags |-> tags, summary |-> summary]
NoTagsValue(summary) == [isNull |-> FALSE, hasTags |-> FALSE, tags |-> <<>>, summary |-> summary]

\* The texts the external generator may answer with for a campaign
GoodJson == "{\"tags\":[\"aid\"],\"summary\":\"llm summary\"}"
GoodJsonSpaced == " { \"tags\": [\"aid\"], \"summary\": \"llm summary\" } "
NoTagsJson == "{\"summary\":\"no tags here\"}"
NullJson == "null"
NotJson == "Sure! Here are the tags:"
Blank == "  "
CampaignContents == {GoodJson, GoodJsonSpaced, NoTagsJson, NullJson, NotJson, Blank}

\* The texts the external generator may answer with for a payment
PaymentContents == {"Low risk, routed to Stripe.", " Routed after review. ", Blank}

\* String.prototype.trim
Trim(text) ==
  CASE text = Blank -> ""
    [] text = GoodJsonSpaced -> "{ \"tags\": [\"aid\"], \"summary\": \"llm summary\" }"
    [] text = " Routed after review. " -> "Routed after review."
    [] OTHER -> text

\* JSON.parse: ok = FALSE stands for the SyntaxError it throws
JSONParse(text) ==
  CASE text = GoodJson -> [ok |-> TRUE, value |-> Analysis(<<"aid">>, "llm summary")]
    [] text = Trim(GoodJsonSpaced) -> [ok |-> TRUE, value |-> Analysis(<<"aid">>, "llm summary")]
    [] text = NoTagsJson -> [ok |-> TRUE, value |-> NoTagsValue("no tags here")]
    [] text = NullJson -> [ok |-> TRUE, value |-> NullValue]
    [] OTHER -> [ok |-> FALSE, value |-> NullValue]

\* JSON.stringify of a value JSON.parse produced
JSONStringify(v) ==
  IF v.isNull THEN "null"
  ELSE IF v.hasTags
       THEN "{\"tags\":[" \o Join(QuoteAll(v.tags), ",") \o "],\"summary\":" \o Quote(v.summary) \o "}"
       ELSE "{\"summary\":" \o Quote(v.summary) \o "}"

\* JSON.stringify({ riskScore, provider, riskFactors })
StringifyPayment(data) ==
  "{\"riskScore\":" \o ScoreText(data.riskScore) \o ",\"provider\":" \o Quote(data.provider)
    \o ",\"riskFactors\":[" \o Join(QuoteAll(data.riskFactors), ",") \o "]}"

\* JSON.stringify({ description })
StringifyCampaign(description) == "{\"description\":" \o Quote(description) \o "}"

createCacheKey_noType(type, json) == "key"

createCacheKey(type, json) == type \o "_" \o json

generateFallbackExplanation_inclusive(riskScore, provider, riskFactors) ==
  LET riskLevel == IF riskScore <= 300 THEN "low" ELSE IF riskScore <= 500 THEN "moderate" ELSE "high"
      factorsText == IF Len(riskFactors) > 0 THEN " due to " \o Join(riskFactors, " and ") ELSE ""
  IN IF provider = "blocked"
     THEN "Transaction blocked due to " \o riskLevel \o " risk score (" \o ToFixed2(riskScore) \o ")"
            \o factorsText \o "."
     ELSE "Payment routed to " \o ToUpperCase(provider) \o " based on " \o riskLevel
            \o " risk score (" \o ToFixed2(riskScore) \o ")" \o factorsText \o "."

generateFallbackExplanation(riskScore, provider, riskFactors) ==
  LET riskLevel == IF riskScore < 300 THEN "low" ELSE IF riskScore < 500 THEN "moderate" ELSE "high"
      factorsText == IF Len(riskFactors) > 0 THEN " due to " \o Join(riskFactors, " and ") ELSE ""
  IN IF provider = "blocked"
     THEN "Transaction blocked due to " \o riskLevel \o " risk score (" \o ToFixed2(riskScore) \o ")"
            \o factorsText \o "."
     ELSE "Payment routed to " \o ToUpperCase(provider) \o " based on " \o riskLevel
            \o " risk score (" \o ToFixed2(riskScore) \o ")" \o factorsText \o "."

generateFallbackCampaignAnalysis(description) ==
  LET has(kw) == Includes(description, kw)
      t1 == IF has("disaster") \/ has("emergency") \/ has("earthquake") THEN <<"disaster relief">> ELSE <<>>
      t2 == IF has("water") \/ has("clean water") THEN <<"clean water">> ELSE <<>>
      t3 == IF has("food") \/ has("hunger") THEN <<"food aid">> ELSE <<>>
      t4 == IF has("children") \/ has("kids") THEN <<"children">> ELSE <<>>
      t5 == IF has("education") \/ has("school") THEN <<"education">> ELSE <<>>
      t6 == IF has("health") \/ has("medical") THEN <<"healthcare">> ELSE <<>>
      locations == <<"nepal", "haiti", "syria", "ukraine", "somalia", "yemen">>
      loc == SelectSeq(locations, LAMBDA l : has(l))
      tags == t1 \o t2 \o t3 \o t4 \o t5 \o t6 \o loc
      summary == IF Len(description) > 100 THEN SubSeq(description, 1, 97) \o "..." ELSE description
  IN Analysis(IF Len(tags) = 0 THEN <<"charitable cause">> ELSE tags, summary)

\* The cache is a function from the keys present to entries.  `writer` is a
\* history field (the operation that wrote the entry); the code never reads it.
Expired_atTTL(entry, now) == now - entry.timestamp >= entry.ttl

\* the expiry test of getFromCache and clearExpiredCache
Expired(entry, now) == now - entry.timestamp > entry.ttl

\* getFromCache: the cache after the read, and the response (hit) or a miss
getFromCache(c, key, now) ==
  IF key \notin DOMAIN c THEN [cache |-> c, hit |-> FALSE, response |-> ""]
  ELSE IF Expired(c[key], now)
       THEN [cache |-> [k \in DOMAIN c \ {key} |-> c[k]], hit |-> FALSE, response |-> ""]
       ELSE [cache |-> c, hit |-> c[key].response # "", response |-> c[key].response]

setCache_noWrite(c, key, response, now, ttl, writer) == c

setCache(c, key, response, now, ttl, writer) ==
  [k \in DOMAIN c \cup {key} |->
     IF k = key THEN [response |-> response, timestamp |-> now, ttl |-> ttl, writer |-> writer]
     ELSE c[k]]

clearExpiredCache_all(c, now) == <<>>

clearExpiredCache(c, now) == [k \in {j \in DOMAIN c : ~Expired(c[j], now)} |-> c[k]]

\* What the external generator does with a call: it throws (unreachable,
\* HTTP error, client timeout) or answers with a text.
Throws == [kind |-> "throw", text |-> ""]
Answers(text) == [kind |-> "content", text |-> text]
PaymentOutcomes == {Throws} \cup {Answers(t) : t \in PaymentContents}
CampaignOutcomes == {Throws} \cup {Answers(t) : t \in CampaignContents}

PaymentBegin_cached(c, enabled, data, now) ==
  LET key == createCacheKey("payment", StringifyPayment(data))
      fallback == generateFallbackExplanation(data.riskScore, data.provider, data.riskFactors)
  IN IF ~enabled
     THEN [cache |-> setCache(c, key, fallback, now, 0, "payment"), done |-> TRUE, hit |-> FALSE,
           result |-> fallback]
     ELSE LET got == getFromCache(c, key, now)
          IN [cache |-> got.cache, done |-> got.hit, hit |-> got.hit, result |-> got.response]

\* generatePaymentExplanation up to its first await.
\*   done = TRUE: it returns `result`;  done = FALSE: the external call is pending
PaymentBegin(c, enabled, data, now) ==
  IF ~enabled
  THEN [cache |-> c, done |-> TRUE, hit |-> FALSE,
        result |-> generateFallbackExplanation(data.riskScore, data.provider, data.riskFactors)]
  ELSE LET got == getFromCache(c, createCacheKey("payment", StringifyPayment(data)), now)
       IN [cache |-> got.cache, done |-> got.hit, hit |-> got.hit, result |-> got.response]

\* generatePaymentExplanation from the answer of the external call to its return
PaymentEnd(c, data, outcome, now, ttl) ==
  LET fallback == generateFallbackExplanation(data.riskScore, data.provider, data.riskFactors)
  IN IF outcome.kind = "throw"
     THEN [cache |-> c, result |-> fallback]
     ELSE LET explanation == IF Trim(outcome.text) # "" THEN Trim(outcome.text) ELSE fallback
          IN [cache |-> setCache(c, createCacheKey("payment", StringifyPayment(data)),
                                 explanation, now, ttl, "payment"),
              result |-> explanation]

\* analyzeCampaign up to its first await
CampaignBegin(c, enabled, description, now) ==
  IF ~enabled
  THEN [cache |-> c, done |-> TRUE, hit |-> FALSE,
        result |-> generateFallbackCampaignAnalysis(description)]
  ELSE LET got == getFromCache(c, createCacheKey("campaign", StringifyCampaign(description)), now)
       IN [cache |-> got.cache, done |-> got.hit, hit |-> got.hit,
           result |-> IF got.hit THEN JSONParse(got.response).value ELSE NullValue]

\* analyzeCampaign from the answer of the external call to its return
CampaignEnd(c, description, outcome, now, ttl) ==
  LET fallback == generateFallbackCampaignAnalysis(description)
      content == Trim(outcome.text)
  IN IF outcome.kind = "throw" \/ content = "" \/ ~JSONParse(content).ok
     THEN [cache |-> c, result |-> fallback]
     ELSE [cache |-> setCache(c, createCacheKey("campaign", StringifyCampaign(description)),
                              JSONStringify(JSONParse(content).value), now, ttl, "campaign"),
           result |-> JSONParse(content).value]


\* ---------------------------------------------------- FraudDetectionService
\* A risk score is a number of thousandths: One is the score 1.
One == 1000

Min(a, b) == IF a < b THEN a ELSE b
Max(a, b) == IF a > b THEN a ELSE b

\* config/fraudRules.json
DefaultRules ==
  [suspiciousDomains |-> <<".ru", ".tk", "test.com">>, highRiskAmountThreshold |-> 50000,
   blockingThreshold |-> 500, stripeThreshold |-> 300]

\* the customRules a FraudDetectionService may be constructed with: none, the
\* thresholds of the test suite, other domains and amounts, and a
\* stripeThreshold above the blockingThreshold
CustomRules ==
  { [suspiciousDomains |-> DefaultRules.suspiciousDomains, highRiskAmountThreshold |-> 50000,
     blockingThreshold |-> 500, stripeThreshold |-> 300],
    [suspiciousDomains |-> DefaultRules.suspiciousDomains, highRiskAmountThreshold |-> 50000,
     blockingThreshold |-> 300, stripeThreshold |-> 100],
    [suspiciousDomains |-> <<"EXAMPLE.com">>, highRiskAmountThreshold |-> 500,
     blockingThreshold |-> 500, stripeThreshold |-> 300],
    [suspiciousDomains |-> <<>>, highRiskAmountThreshold |-> 50000,
     blockingThreshold |-> 300, stripeThreshold |-> 600] }

\* the fields of a valid ChargeRequest
ChargeAmounts == {1, 1000, 1001, 10001, 50001}
Currencies == {"USD", "EUR", "CNY"}
Sources == {"tok_visa", "tok_test_card"}
Emails == {"donor@example.com", "Buyer@Mail.RU"}
ChargeRequests == [amount : ChargeAmounts, currency : Currencies, source : Sources, email : Emails]
\* Math.random() * 0.1, in thousandths
Jitters == 0..99

\* String.prototype.toLowerCase on the emails and domains above
ToLowerCase(str) ==
  CASE str = "Buyer@Mail.RU" -> "buyer@mail.ru"
    [] str = "EXAMPLE.com" -> "example.com"
    [] OTHER -> str

RECURSIVE Some(_, _)
\* suspiciousDomains.some(domain => email.toLowerCase().includes(domain.toLowerCase()))
Some(domains, email) ==
  IF domains = <<>> THEN FALSE
  ELSE Includes(ToLowerCase(email), ToLowerCase(Head(domains))) \/ Some(Tail(domains), email)

calculateAmountRisk_high(r, amount) == 400

calculateAmountRisk_inverted(r, amount) ==
  IF amount > r.highRiskAmountThreshold THEN 50
  ELSE IF amount > 10000 THEN 200
  ELSE IF amount > 1000 THEN 100
  ELSE 400

calculateAmountRisk(r, amount) ==
  IF amount > r.highRiskAmountThreshold THEN 400
  ELSE IF amount > 10000 THEN 200
  ELSE IF amount > 1000 THEN 100
  ELSE 50

calculateDomainRisk_small(r, email) == IF Some(r.suspiciousDomains, email) THEN 50 ELSE 0

calculateDomainRisk(r, email) == IF Some(r.suspiciousDomains, email) THEN 300 ELSE 0

calculateCurrencyRisk(currency) ==
  IF ToUpperCase(currency) \in {"RUB", "CNY", "KRW"} THEN 150
  ELSE IF ToUpperCase(currency) # "USD" THEN 50
  ELSE 0

calculateSourceRisk(source) ==
  IF Includes(source, "test") \/ Includes(source, "tok_test") THEN 100 ELSE 0

calculateRiskScore_noClamp(r, request, jitter) ==
  jitter + calculateAmountRisk(r, request.amount) + calculateDomainRisk(r, request.email)
    + calculateCurrencyRisk(request.currency) + calculateSourceRisk(request.source)

\* calculateRiskScore; jitter is the value of Math.random() * 0.1
calculateRiskScore(r, request, jitter) ==
  LET score == jitter + calculateAmountRisk(r, request.amount)
                 + calculateDomainRisk(r, request.email)
                 + calculateCurrencyRisk(request.currency)
                 + calculateSourceRisk(request.source)
  IN Min(Max(score, 0), One)

determineProvider_strict(r, riskScore) ==
  IF riskScore > r.blockingThreshold THEN "blocked"
  ELSE IF riskScore <= r.stripeThreshold THEN "stripe"
  ELSE "paypal"

determineProvider(r, riskScore) ==
  IF riskScore >= r.blockingThreshold THEN "blocked"
  ELSE IF riskScore <= r.stripeThreshold THEN "stripe"
  ELSE "paypal"

getRiskFactors_noSource(r, request) ==
  (IF request.amount > r.highRiskAmountThreshold THEN <<"large amount">> ELSE <<>>)
  \o (IF Some(r.suspiciousDomains, request.email) THEN <<"suspicious email domain">> ELSE <<>>)
  \o (IF request.currency # "USD" THEN <<"non-USD currency">> ELSE <<>>)

getRiskFactors(r, request) ==
  (IF request.amount > r.highRiskAmountThreshold THEN <<"large amount">> ELSE <<>>)
  \o (IF Some(r.suspiciousDomains, request.email) THEN <<"suspicious email domain">> ELSE <<>>)
  \o (IF request.currency # "USD" THEN <<"non-USD currency">> ELSE <<>>)
  \o (IF Includes(request.source, "test") THEN <<"test payment source">> ELSE <<>>)

\* ------------------------------------------------------------------- state
VARIABLES
  clock,                  \* the wall clock (new Date(), Date.now())
  llmEnabled,             \* LLMService: enableLLM and a configured client
  cacheTTL,               \* LLMService.cacheTTL
  cache,                  \* LLMService.cache
  subscriptions,          \* SubscriptionService.subscriptions: the Map, in insertion order
  heap,                   \* the Subscription objects ever created, by id
  transactions,           \* SubscriptionService.transactions
  backgroundJobInterval,  \* TRUE while the setInterval timer is set
  proc,                   \* the server process: "running", "closing" (server.close called), "exited"
  sweep,                  \* the running calls of processRecurringCharges
  creq,                   \* the POST /subscriptions requests
  lastCancel,             \* history: the last cancelSubscription call and its result
  failures,               \* history: simulated charges that failed so far
  lreq,                   \* direct calls of the LLMService methods
  rules,                  \* FraudDetectionService.rules
  ledger,                 \* PaymentService.transactions
  preq,                   \* the calls of PaymentService.processCharge
  pure,                   \* a call of a function that reads no state: its input and result
  query,                  \* the read operation that returned last, and what it returned
  twin,                   \* an LLMService given the same calls and answers, never swept
  transactionService      \* the SubscriptionService of the /subscription-transactions routes

vars == <<clock, llmEnabled, cacheTTL, cache, subscriptions, heap, transactions,
          backgroundJobInterval, proc, sweep, creq, lastCancel, failures, lreq,
          rules, ledger, preq, pure, query, twin, transactionService>>

\* what the operations of the services leave alone: the configuration, the
\* second LLMService, and the SubscriptionService that the routes of
\* /subscription-transactions construct for themselves.  No route calls
\* createSubscription on that object, so its Map stays empty, its timer
\* sweeps no subscription and nothing is pushed to its transactions.
llmVars == <<llmEnabled, cacheTTL, twin, transactionService>>
payVars == <<rules, ledger, preq, pure, query>>
subVars == <<subscriptions, heap, transactions, backgroundJobInterval, proc, sweep, creq,
             lastCancel, failures>>

IdleSweep == [pc |-> "idle", by |-> "none", now |-> 0, list |-> <<>>, idx |-> 1]
IdleCreate == [pc |-> "idle", donorId |-> "", amount |-> 0, interval |-> "", description |-> "",
               analysis |-> NullValue, subscription |-> 0]
NoCancel == [called |-> FALSE, existed |-> FALSE, wasActive |-> FALSE, result |-> FALSE]
\* A direct call of an LLMService method.  text / analysis is what it returned;
\* the other fields are history: whether it made an external call and what the
\* generator answered, whether it read its result from the cache (hit), which
\* operation had written the entry it read, and when it started and ended.
NoData == [riskScore |-> 0, provider |-> "", riskFactors |-> <<>>]
IdleReq == [pc |-> "idle", op |-> "none", description |-> "", data |-> NoData,
            text |-> "", analysis |-> NullValue, external |-> FALSE, hit |-> FALSE,
            hitWriter |-> "none", outcome |-> [kind |-> "none", text |-> ""],
            startedAt |-> 0, endedAt |-> 0]

\* A call of PaymentService.processCharge: the values it computes, the
\* explanation, and the response it returns.  The score of the response is in
\* hundredths.  cleared is history: clearTransactions removed the transaction
\* of the call.
NoRequest == [amount |-> 0, currency |-> "", source |-> "", email |-> ""]
NoResponse == [transactionId |-> 0, provider |-> "", status |-> "", riskScore |-> 0, explanation |-> ""]
IdleCharge == [pc |-> "idle", request |-> NoRequest, transactionId |-> 0, riskScore |-> 0,
               provider |-> "", status |-> "", riskFactors |-> <<>>, explanation |-> "",
               response |-> NoResponse, cleared |-> FALSE]
\* A direct call of a function that reads no state of the services.
\* other, otherJitter and otherScore are those of the second call, where two
\* calls are compared.
NoCall == [op |-> "none", interval |-> "", baseDate |-> 0, request |-> NoRequest, jitter |-> 0,
           riskScore |-> 0, date |-> 0, score |-> 0, provider |-> "", riskFactors |-> <<>>,
           other |-> NoRequest, otherJitter |-> 0, otherScore |-> 0]

\* undefined, where the value is a number or a date
Undefined == -1
\* The filters of getFilteredTransactions; "" and Undefined stand for a filter
\* that is not given.
NoFilters == [provider |-> "", status |-> "", minAmount |-> Undefined, maxAmount |-> Undefined,
              startDate |-> Undefined, endDate |-> Undefined]
NoStats == [total |-> 0, successful |-> 0, blocked |-> 0, totalAmount |-> 0,
            averageRiskScore |-> 0, providerBreakdown |-> <<>>]
NoSubscriptionStats == [totalActive |-> 0, totalCancelled |-> 0, monthlyRecurringRevenue |-> 0,
                        campaignsByTag |-> <<>>, intervalBreakdown |-> <<>>]
\* A read operation and what it returned: the transactions (list, found),
\* the subscription (the id of the object, 0 for undefined) or the statistics.
NoQuery == [op |-> "none", id |-> 0, donorId |-> "", filters |-> NoFilters, list |-> <<>>,
            found |-> <<>>, subscription |-> 0, stats |-> NoStats,
            subscriptionStats |-> NoSubscriptionStats, threw |-> FALSE]

\* the state after construction; the configuration is read once
Init ==
  /\ clock = 0
  /\ llmEnabled \in BOOLEAN
  /\ cacheTTL \in CacheTTLs
  /\ cache = <<>>
  /\ subscriptions = <<>>
  /\ heap = <<>>
  /\ transactions = <<>>
  /\ backgroundJobInterval = TRUE
  /\ proc = "running"
  /\ sweep = [w \in SweepIds |-> IdleSweep]
  /\ creq = [p \in CreateIds |-> IdleCreate]
  /\ lastCancel = NoCancel
  /\ failures = 0
  /\ lreq = [r \in ReqIds |-> IdleReq]
  /\ rules = DefaultRules
  /\ transactionService = [subscriptions |-> <<>>, transactions |-> <<>>]
  /\ ledger = <<>>
  /\ preq = [q \in ChargeIds |-> IdleCharge]
  /\ pure = NoCall
  /\ query = NoQuery
  /\ twin = [cache |-> <<>>, lreq |-> [r \in ReqIds |-> IdleReq]]

\* ------------------------------------------------------ SubscriptionService
\* Map.prototype.get: the id of the object stored for the donor, 0 for undefined
MapGet(map, donorId) ==
  IF \E i \in 1..Len(map) : map[i].key = donorId
  THEN map[CHOOSE i \in 1..Len(map) : map[i].key = donorId].ref
  ELSE 0

\* Map.prototype.set: an existing key keeps its place
MapSet(map, donorId, ref) ==
  IF \E i \in 1..Len(map) : map[i].key = donorId
  THEN [i \in 1..Len(map) |-> IF map[i].key = donorId THEN [key |-> donorId, ref |-> ref] ELSE map[i]]
  ELSE Append(map, [key |-> donorId, ref |-> ref])

getSubscriptionByDonorId(donorId) == MapGet(subscriptions, donorId)

RECURSIVE InsertByCreatedAt(_, _, _)
\* one step of the stable sort by createdAt, newest first
InsertByCreatedAt(sorted, ref, h) ==
  IF sorted = <<>> THEN <<ref>>
  ELSE IF h[Head(sorted)].createdAt >= h[ref].createdAt
       THEN <<Head(sorted)>> \o InsertByCreatedAt(Tail(sorted), ref, h)
       ELSE <<ref>> \o sorted

RECURSIVE SortNewestFirst(_, _)
SortNewestFirst(refs, h) ==
  IF refs = <<>> THEN <<>>
  ELSE InsertByCreatedAt(SortNewestFirst(SubSeq(refs, 1, Len(refs) - 1), h), refs[Len(refs)], h)

RECURSIVE MapValues(_)
MapValues(map) == IF map = <<>> THEN <<>> ELSE <<Head(map).ref>> \o MapValues(Tail(map))

getActiveSubscriptions(map, h) ==
  SortNewestFirst(SelectSeq(MapValues(map), LAMBDA ref : h[ref].isActive), h)

\* the test of the loop of processRecurringCharges
IsDue(sub, now) == now >= sub.nextChargeAt

\* the next index of the list, from idx on, whose subscription is due
RECURSIVE NextDue(_, _, _, _)
NextDue(list, idx, now, h) ==
  IF idx > Len(list) THEN idx
  ELSE IF IsDue(h[list[idx]], now) THEN idx
  ELSE NextDue(list, idx + 1, now, h)

chargeSubscription_noLastCharged(ref, success) ==
  /\ transactions' = Append(transactions,
       [id |-> Len(transactions) + 1, subscriptionId |-> heap[ref].id,
        donorId |-> heap[ref].donorId, amount |-> heap[ref].amount,
        currency |-> heap[ref].currency,
        status |-> IF success THEN "success" ELSE "failed",
        timestamp |-> clock, type |-> "recurring"])
  /\ heap' = IF success
             THEN [heap EXCEPT ![ref].nextChargeAt = calculateNextChargeDate(heap[ref].interval, clock)]
             ELSE heap
  /\ failures' = IF success THEN failures ELSE failures + 1

chargeSubscription_advanceOnFailure(ref, success) ==
  /\ transactions' = Append(transactions,
       [id |-> Len(transactions) + 1, subscriptionId |-> heap[ref].id,
        donorId |-> heap[ref].donorId, amount |-> heap[ref].amount,
        currency |-> heap[ref].currency,
        status |-> IF success THEN "success" ELSE "failed",
        timestamp |-> clock, type |-> "recurring"])
  /\ heap' = IF success
             THEN [heap EXCEPT ![ref].lastChargedAt = clock,
                               ![ref].nextChargeAt = calculateNextChargeDate(heap[ref].interval, clock)]
             ELSE [heap EXCEPT ![ref].nextChargeAt = calculateNextChargeDate(heap[ref].interval, clock)]
  /\ failures' = IF success THEN failures ELSE failures + 1

chargeSubscription_cancelOnFailure(ref, success) ==
  /\ transactions' = Append(transactions,
       [id |-> Len(transactions) + 1, subscriptionId |-> heap[ref].id,
        donorId |-> heap[ref].donorId, amount |-> heap[ref].amount,
        currency |-> heap[ref].currency,
        status |-> IF success THEN "success" ELSE "failed",
        timestamp |-> clock, type |-> "recurring"])
  /\ heap' = IF success
             THEN [heap EXCEPT ![ref].lastChargedAt = clock,
                               ![ref].nextChargeAt = calculateNextChargeDate(heap[ref].interval, clock)]
             ELSE [heap EXCEPT ![ref].isActive = FALSE]
  /\ failures' = IF success THEN failures ELSE failures + 1

\* chargeSubscription: it has no await of its own, so it runs in one piece
chargeSubscription(ref, success) ==
  /\ transactions' = Append(transactions,
       [id |-> Len(transactions) + 1, subscriptionId |-> heap[ref].id,
        donorId |-> heap[ref].donorId, amount |-> heap[ref].amount,
        currency |-> heap[ref].currency,
        status |-> IF success THEN "success" ELSE "failed",
        timestamp |-> clock, type |-> "recurring"])
  /\ heap' = IF success
             THEN [heap EXCEPT ![ref].lastChargedAt = clock,
                               ![ref].nextChargeAt = calculateNextChargeDate(heap[ref].interval, clock)]
             ELSE heap
  /\ failures' = IF success THEN failures ELSE failures + 1

\* processRecurringCharges from position idx of its list up to the next await
\* (the await of a chargeSubscription call) or to its end
SweepSegment(w, by, now, list, idx) ==
  LET j == NextDue(list, idx, now, heap)
  IN IF j > Len(list)
     THEN /\ sweep' = [sweep EXCEPT ![w] = IdleSweep]
          /\ UNCHANGED <<heap, transactions, failures>>
     ELSE /\ \E success \in (IF failures < MaxFail THEN BOOLEAN ELSE {TRUE}) :
               chargeSubscription(list[j], success)
          /\ sweep' = [sweep EXCEPT ![w] =
                         [pc |-> "suspended", by |-> by, now |-> now, list |-> list, idx |-> j + 1]]

FreeSweep(w) == sweep[w].pc = "idle" /\ \A v \in SweepIds : v < w => sweep[v].pc # "idle"

\* processRecurringCharges from its call: now, the list of active
\* subscriptions, and the loop up to its first await
processRecurringCharges(w, by) ==
  /\ FreeSweep(w)
  /\ SweepSegment(w, by, clock, getActiveSubscriptions(subscriptions, heap), 1)
  /\ UNCHANGED <<clock, llmVars, payVars, cache, subscriptions, backgroundJobInterval, proc, creq, lastCancel, lreq>>

\* the setInterval callback of startBackgroundJob
TimerTick(w) ==
  /\ backgroundJobInterval
  /\ processRecurringCharges(w, "timer")

triggerChargeProcessing(w) == processRecurringCharges(w, "manual")

\* the continuation of processRecurringCharges after an await
SweepResume(w) ==
  /\ sweep[w].pc = "suspended"
  /\ SweepSegment(w, sweep[w].by, sweep[w].now, sweep[w].list, sweep[w].idx)
  /\ UNCHANGED <<clock, llmVars, payVars, cache, subscriptions, backgroundJobInterval, proc, creq, lastCancel, lreq>>

\* the value cancelSubscription returns; ref is what the Map holds for the donor
cancelResult(ref) == ref # 0

cancelSubscription_toggle(donorId) ==
  LET ref == MapGet(subscriptions, donorId)
  IN /\ lastCancel' = [called |-> TRUE, existed |-> ref # 0,
                       wasActive |-> ref # 0 /\ heap[ref].isActive,
                       result |-> cancelResult(ref)]
     /\ heap' = IF ref # 0 THEN [heap EXCEPT ![ref].isActive = ~heap[ref].isActive] ELSE heap
     /\ UNCHANGED <<clock, llmVars, payVars, cache, subscriptions, transactions, backgroundJobInterval, proc,
                    sweep, creq, failures, lreq>>

cancelSubscription(donorId) ==
  LET ref == MapGet(subscriptions, donorId)
  IN /\ lastCancel' = [called |-> TRUE, existed |-> ref # 0,
                       wasActive |-> ref # 0 /\ heap[ref].isActive,
                       result |-> cancelResult(ref)]
     /\ heap' = IF ref # 0 THEN [heap EXCEPT ![ref].isActive = FALSE] ELSE heap
     /\ UNCHANGED <<clock, llmVars, payVars, cache, subscriptions, transactions, backgroundJobInterval, proc,
                    sweep, creq, failures, lreq>>

\* POST /subscriptions: the conflict check, then createSubscription up to
\* the await of analyzeCampaign
CreateRequest(p, donorId, amount, interval, description) ==
  /\ creq[p].pc = "idle"
  /\ \A q \in CreateIds : q < p => creq[q].pc # "idle"
  /\ LET existing == getSubscriptionByDonorId(donorId)
         begun == CampaignBegin(cache, llmEnabled, description, clock)
         req == [creq[p] EXCEPT !.donorId = donorId, !.amount = amount, !.interval = interval,
                                !.description = description]
     IN IF existing # 0 /\ heap[existing].isActive
        THEN /\ creq' = [creq EXCEPT ![p] = [IdleCreate EXCEPT !.pc = "conflict"]]
             /\ cache' = cache
        ELSE /\ cache' = begun.cache
             /\ creq' = [creq EXCEPT ![p] =
                  IF begun.done
                  THEN [req EXCEPT !.pc = "resume", !.analysis = begun.result]
                  ELSE [req EXCEPT !.pc = "awaitExternal"]]
  /\ UNCHANGED <<clock, llmVars, payVars, subscriptions, heap, transactions, backgroundJobInterval, proc,
                 sweep, lastCancel, failures, lreq>>

\* the external generator answers the call analyzeCampaign made for request p:
\* analyzeCampaign runs to its return
CreateExternalAnswer(p, outcome) ==
  /\ creq[p].pc = "awaitExternal"
  /\ LET ended == CampaignEnd(cache, creq[p].description, outcome, clock, cacheTTL)
     IN /\ cache' = ended.cache
        /\ creq' = [creq EXCEPT ![p].pc = "resume", ![p].analysis = ended.result]
  /\ UNCHANGED <<clock, llmVars, payVars, subscriptions, heap, transactions, backgroundJobInterval, proc,
                 sweep, lastCancel, failures, lreq>>

NewSubscription_charged(id, req, now) ==
  [id |-> id, donorId |-> req.donorId, amount |-> req.amount, currency |-> "USD",
   interval |-> req.interval, campaignDescription |-> req.description,
   tags |-> req.analysis.tags, hasTags |-> req.analysis.hasTags,
   summary |-> req.analysis.summary,
   createdAt |-> now, lastChargedAt |-> now,
   nextChargeAt |-> calculateNextChargeDate(req.interval, now), isActive |-> TRUE]

\* The object createSubscription builds.  lastChargedAt = -1 stands for
\* undefined, hasTags = FALSE for tags that are undefined.
NewSubscription(id, req, now) ==
  [id |-> id, donorId |-> req.donorId, amount |-> req.amount, currency |-> "USD",
   interval |-> req.interval, campaignDescription |-> req.description,
   tags |-> req.analysis.tags, hasTags |-> req.analysis.hasTags,
   summary |-> req.analysis.summary,
   createdAt |-> now, lastChargedAt |-> -1,
   nextChargeAt |-> calculateNextChargeDate(req.interval, now), isActive |-> TRUE]

\* createSubscription after the await of analyzeCampaign, and the response
\* of the route: 201, or 500 when createSubscription throws.
\*   analysis = null          reading analysis.tags throws before the Map is written
\*   analysis without tags    analysis.tags.join throws after the Map is written
CreateResume(p) ==
  /\ creq[p].pc = "resume"
  /\ IF creq[p].analysis.isNull
     THEN /\ creq' = [creq EXCEPT ![p] = [IdleCreate EXCEPT !.pc = "error"]]
          /\ UNCHANGED <<subscriptions, heap>>
     ELSE LET id == Len(heap) + 1
          IN /\ heap' = Append(heap, NewSubscription(id, creq[p], clock))
             /\ subscriptions' = MapSet(subscriptions, creq[p].donorId, id)
             /\ creq' = [creq EXCEPT ![p] =
                  [IdleCreate EXCEPT !.subscription = id,
                                     !.pc = IF creq[p].analysis.hasTags THEN "created" ELSE "error"]]
  /\ UNCHANGED <<clock, llmVars, payVars, cache, transactions, backgroundJobInterval, proc, sweep,
                 lastCancel, failures, lreq>>

\* time passes
Tick ==
  /\ clock < MaxClock
  /\ clock' = clock + 1
  /\ UNCHANGED <<llmVars, payVars, cache, subVars, lreq>>

\* The subscription service with explanation generation disabled (ENABLE_LLM
\* unset, the default): creations, cancellations and sweeps.
Next ==
  \/ Tick
  \/ \E p \in CreateIds, d \in Donors, a \in Amounts, i \in ReqIntervals, c \in CreateDescs :
       CreateRequest(p, d, a, i, c)
  \/ \E p \in CreateIds : CreateResume(p)
  \/ \E d \in Donors : cancelSubscription(d)
  \/ \E w \in SweepIds : triggerChargeProcessing(w)
  \/ \E w \in SweepIds : TimerTick(w)
  \/ \E w \in SweepIds : SweepResume(w)

InitDisabled == Init /\ llmEnabled = FALSE /\ cacheTTL = 1

Spec == InitDisabled /\ [][Next]_vars

\* The creation path with explanation generation enabled and any answer of
\* the external generator, next to cancellations.
NextCreate ==
  \/ Tick
  \/ \E p \in CreateIds, d \in Donors, a \in Amounts, i \in CreateIntervals, c \in CreateDescs :
       CreateRequest(p, d, a, i, c)
  \/ \E p \in CreateIds, o \in CampaignOutcomes : CreateExternalAnswer(p, o)
  \/ \E p \in CreateIds : CreateResume(p)
  \/ \E d \in Donors : cancelSubscription(d)

InitCreate == Init /\ llmEnabled = TRUE /\ cacheTTL = 1

SpecCreate == InitCreate /\ [][NextCreate]_vars

\* ------------------------------------------------------- process shutdown
\* stopBackgroundJob: clearInterval, when the timer is set
stopBackgroundJob ==
  /\ backgroundJobInterval
  /\ backgroundJobInterval' = FALSE
  /\ UNCHANGED <<clock, llmVars, payVars, cache, subscriptions, heap, transactions, proc, sweep, creq,
                 lastCancel, failures, lreq>>

\* the SIGTERM / SIGINT handler: it calls server.close and nothing else
SignalHandler ==
  /\ proc = "running"
  /\ proc' = "closing"
  /\ UNCHANGED <<clock, llmVars, payVars, cache, subscriptions, heap, transactions,
                 backgroundJobInterval, sweep, creq, lastCancel, failures, lreq>>

\* the callback of server.close, once the open connections have ended:
\* process.exit(0)
ServerClosed ==
  /\ proc = "closing"
  /\ proc' = "exited"
  /\ UNCHANGED <<clock, llmVars, payVars, cache, subscriptions, heap, transactions,
                 backgroundJobInterval, sweep, creq, lastCancel, failures, lreq>>

\* The subscription service inside the server process.  Until the process
\* exits the event loop goes on running timers, continuations and the
\* requests of the connections that are still open.
NextShutdown ==
  \/ proc # "exited" /\ Next
  \/ proc # "exited" /\ stopBackgroundJob
  \/ SignalHandler
  \/ ServerClosed

SpecShutdown == InitDisabled /\ [][NextShutdown]_vars

\* ---------------------------------------------- functions, called directly
AllIntervals == CreateIntervals
BaseDates == 0..MaxDate
Scores == 0..One

PayIdle == ledger = <<>> /\ \A q \in ChargeIds : preq[q].pc = "idle"

\* calculateNextChargeDate(interval, baseDate)
CallNextChargeDate(interval, baseDate) ==
  /\ pure.op = "none"
  /\ pure' = [NoCall EXCEPT !.op = "calculateNextChargeDate", !.interval = interval,
                            !.baseDate = baseDate,
                            !.date = calculateNextChargeDate(interval, baseDate)]
  /\ UNCHANGED <<clock, llmVars, cache, subVars, lreq, rules, ledger, preq, query>>

\* new FraudDetectionService(customRules)
NewFraudDetectionService(custom) ==
  /\ pure.op = "none" /\ PayIdle /\ rules = DefaultRules
  /\ rules' = custom
  /\ UNCHANGED <<clock, llmVars, cache, subVars, lreq, ledger, preq, pure, query>>

\* fraudDetection.calculateRiskScore(request), with the value Math.random gave
CallCalculateRiskScore(request, jitter) ==
  /\ pure.op = "none" /\ PayIdle
  /\ pure' = [NoCall EXCEPT !.op = "calculateRiskScore", !.request = request, !.jitter = jitter,
                            !.score = calculateRiskScore(rules, request, jitter)]
  /\ UNCHANGED <<clock, llmVars, cache, subVars, lreq, rules, ledger, preq, query>>

\* fraudDetection.determineProvider(riskScore)
CallDetermineProvider(riskScore) ==
  /\ pure.op = "none" /\ PayIdle
  /\ pure' = [NoCall EXCEPT !.op = "determineProvider", !.riskScore = riskScore,
                            !.provider = determineProvider(rules, riskScore)]
  /\ UNCHANGED <<clock, llmVars, cache, subVars, lreq, rules, ledger, preq, query>>

\* one call is looked at: once it has returned nothing more happens
NextFraud ==
  /\ pure.op = "none" /\ PayIdle
  /\ \/ \E custom \in CustomRules : NewFraudDetectionService(custom)
     \/ \E request \in ChargeRequests, jitter \in Jitters : CallCalculateRiskScore(request, jitter)
     \/ \E riskScore \in Scores : CallDetermineProvider(riskScore)

NextPure ==
  \/ /\ pure.op = "none"
     /\ \E interval \in AllIntervals, baseDate \in BaseDates : CallNextChargeDate(interval, baseDate)
  \/ NextFraud

SpecPure == InitDisabled /\ [][NextPure]_vars

\* Two calls of the same FraudDetectionService, to compare their results.
\* The services are constructed with the rules above or with another
\* highRiskAmountThreshold.
Thresholds == {0, 500, 1000, 5000, 10000, 20000, 50000}
ThresholdRules == {[DefaultRules EXCEPT !.highRiskAmountThreshold = t] : t \in Thresholds}
GridAmounts == {1, 500, 501, 1000, 1001, 5000, 5001, 10000, 10001, 20000, 20001, 50000, 50001}
PairJitters == {0, 1, 50, 98, 99}

\* calculateAmountRisk(a) and calculateAmountRisk(b)
CallCalculateAmountRisk(a, b) ==
  /\ pure.op = "none" /\ PayIdle
  /\ pure' = [NoCall EXCEPT !.op = "calculateAmountRisk",
                            !.request = [NoRequest EXCEPT !.amount = a],
                            !.other = [NoRequest EXCEPT !.amount = b],
                            !.score = calculateAmountRisk(rules, a),
                            !.otherScore = calculateAmountRisk(rules, b)]
  /\ UNCHANGED <<clock, llmVars, cache, subVars, lreq, rules, ledger, preq, query>>

\* calculateRiskScore(request) and calculateRiskScore(other), each with its
\* own value of Math.random
CompareRiskScores(request, jitter, other, otherJitter) ==
  /\ pure.op = "none" /\ PayIdle
  /\ pure' = [NoCall EXCEPT !.op = "compareRiskScores",
                            !.request = request, !.jitter = jitter,
                            !.other = other, !.otherJitter = otherJitter,
                            !.score = calculateRiskScore(rules, request, jitter),
                            !.otherScore = calculateRiskScore(rules, other, otherJitter)]
  /\ UNCHANGED <<clock, llmVars, cache, subVars, lreq, rules, ledger, preq, query>>

OnlyEmailDiffers(a, b) == a.email # b.email /\ [a EXCEPT !.email = b.email] = b
OnlyAmountDiffers(a, b) == a.amount # b.amount /\ [a EXCEPT !.amount = b.amount] = b

NextCompare ==
  /\ pure.op = "none"
  /\ \/ \E custom \in CustomRules \cup ThresholdRules : NewFraudDetectionService(custom)
     \/ \E a \in GridAmounts, b \in GridAmounts : CallCalculateAmountRisk(a, b)
     \/ \E request \in ChargeRequests, other \in ChargeRequests :
          /\ OnlyEmailDiffers(request, other) \/ OnlyAmountDiffers(request, other)
          /\ \E jitter \in PairJitters, otherJitter \in PairJitters :
               CompareRiskScores(request, jitter, other, otherJitter)

SpecCompare == InitDisabled /\ [][NextCompare]_vars

\* ----------------------------------------------------------- PaymentService
\* The requests and the values of Math.random the charges are made with: the
\* lowest score, scores on both sides of the thresholds, and the highest.
PayRequests ==
  { [amount |-> 1000, currency |-> "USD", source |-> "tok_visa", email |-> "donor@example.com"],
    [amount |-> 10001, currency |-> "EUR", source |-> "tok_test_card", email |-> "donor@example.com"],
    [amount |-> 50001, currency |-> "USD", source |-> "tok_test_card", email |-> "donor@example.com"],
    [amount |-> 50001, currency |-> "CNY", source |-> "tok_test_card", email |-> "Buyer@Mail.RU"] }
PayJitters == {0, 99}

\* Math.round(riskScore * 100) / 100, in hundredths
Round2(riskScore) == (riskScore + 5) \div 10

statusOf_success(provider) == "success"

\* the status processCharge derives from the provider
statusOf(provider) == IF provider = "blocked" THEN "blocked" ELSE "success"

ExplanationData(c) == [riskScore |-> c.riskScore, provider |-> c.provider, riskFactors |-> c.riskFactors]

\* processCharge up to the await of generatePaymentExplanation, which itself
\* runs up to its return or to its external call
ChargeStart(q, request, jitter) ==
  /\ pure.op = "none"
  /\ preq[q].pc = "idle" /\ \A o \in ChargeIds : o < q => preq[o].pc # "idle"
  /\ LET riskScore == calculateRiskScore(rules, request, jitter)
         provider == determineProvider(rules, riskScore)
         call == [IdleCharge EXCEPT !.request = request, !.transactionId = q,
                                    !.riskScore = riskScore, !.provider = provider,
                                    !.status = statusOf(provider),
                                    !.riskFactors = getRiskFactors(rules, request)]
         begun == PaymentBegin(cache, llmEnabled, ExplanationData(call), clock)
     IN /\ cache' = begun.cache
        /\ preq' = [preq EXCEPT ![q] =
             IF begun.done THEN [call EXCEPT !.pc = "explained", !.explanation = begun.result]
             ELSE [call EXCEPT !.pc = "awaitExternal"]]
  /\ UNCHANGED <<clock, llmVars, subVars, lreq, rules, ledger, pure, query>>

\* the external generator answers: generatePaymentExplanation runs to its return
ChargeExternalAnswer(q, outcome) ==
  /\ preq[q].pc = "awaitExternal"
  /\ LET ended == PaymentEnd(cache, ExplanationData(preq[q]), outcome, clock, cacheTTL)
     IN /\ cache' = ended.cache
        /\ preq' = [preq EXCEPT ![q].pc = "explained", ![q].explanation = ended.result]
  /\ UNCHANGED <<clock, llmVars, subVars, lreq, rules, ledger, pure, query>>

NewTransaction_noEmail(c, now) ==
  [id |-> c.transactionId, amount |-> c.request.amount,
   currency |-> c.request.currency, source |-> c.request.source,
   email |-> "", provider |-> c.provider,
   status |-> c.status, riskScore |-> c.riskScore,
   explanation |-> c.explanation, timestamp |-> now,
   metadata |-> [riskFactors |-> c.riskFactors]]

\* the Transaction processCharge builds
NewTransaction(c, now) ==
  [id |-> c.transactionId, amount |-> c.request.amount,
   currency |-> c.request.currency, source |-> c.request.source,
   email |-> c.request.email, provider |-> c.provider,
   status |-> c.status, riskScore |-> c.riskScore,
   explanation |-> c.explanation, timestamp |-> now,
   metadata |-> [riskFactors |-> c.riskFactors]]

\* processCharge after the await: the transaction is built and pushed, then
\* processCharge waits for simulateProviderProcessing
ChargeResume(q) ==
  /\ preq[q].pc = "explained"
  /\ ledger' = Append(ledger, NewTransaction(preq[q], clock))
  /\ preq' = [preq EXCEPT ![q].pc = "processing"]
  /\ UNCHANGED <<clock, llmVars, cache, subVars, lreq, rules, pure, query>>

\* the delay of simulateProviderProcessing is over: processCharge returns
ChargeReturn(q) ==
  /\ preq[q].pc = "processing"
  /\ preq' = [preq EXCEPT ![q].pc = "done",
                          ![q].response = [transactionId |-> preq[q].transactionId,
                                           provider |-> preq[q].provider,
                                           status |-> preq[q].status,
                                           riskScore |-> Round2(preq[q].riskScore),
                                           explanation |-> preq[q].explanation]]
  /\ UNCHANGED <<clock, llmVars, cache, subVars, lreq, rules, ledger, pure, query>>

NextPay ==
  \/ Tick
  \/ \E q \in ChargeIds, request \in PayRequests, jitter \in PayJitters : ChargeStart(q, request, jitter)
  \/ \E q \in ChargeIds, o \in PaymentOutcomes : ChargeExternalAnswer(q, o)
  \/ \E q \in ChargeIds : ChargeResume(q)
  \/ \E q \in ChargeIds : ChargeReturn(q)

InitPay == Init /\ cacheTTL = 1

\* The payment service, with explanation generation enabled or not; next to
\* it, the functions of its FraudDetectionService called on their own.
SpecPay == InitPay /\ [][NextPay \/ NextFraud]_vars

\* ------------------------------------- PaymentService: the read operations
RECURSIVE InsertByTimestamp(_, _)
\* t goes behind the transactions that are as new as it or newer
InsertByTimestamp(sorted, t) ==
  IF sorted = <<>> THEN <<t>>
  ELSE IF Head(sorted).timestamp >= t.timestamp
       THEN <<Head(sorted)>> \o InsertByTimestamp(Tail(sorted), t)
       ELSE <<t>> \o sorted

RECURSIVE SortByTimestamp(_)
\* Array.prototype.sort with (a, b) => b.timestamp - a.timestamp: newest first,
\* transactions of the same timestamp stay in the order they were in
SortByTimestamp(list) ==
  IF list = <<>> THEN <<>>
  ELSE InsertByTimestamp(SortByTimestamp(SubSeq(list, 1, Len(list) - 1)), list[Len(list)])

\* the filters of the GET /transactions requests: none, each one alone, the
\* ranges, and all of them
Filters ==
  { NoFilters,
    [NoFilters EXCEPT !.provider = "stripe"], [NoFilters EXCEPT !.provider = "paypal"],
    [NoFilters EXCEPT !.provider = "blocked"],
    [NoFilters EXCEPT !.status = "success"], [NoFilters EXCEPT !.status = "blocked"],
    [NoFilters EXCEPT !.minAmount = 10001], [NoFilters EXCEPT !.maxAmount = 10001],
    [NoFilters EXCEPT !.minAmount = 1000, !.maxAmount = 10001],
    [NoFilters EXCEPT !.startDate = 1], [NoFilters EXCEPT !.endDate = 0],
    [NoFilters EXCEPT !.startDate = 0, !.endDate = 1],
    [provider |-> "paypal", status |-> "success", minAmount |-> 1000, maxAmount |-> 10001,
     startDate |-> 0, endDate |-> 0] }

Given(f) ==
  f.provider # "" \/ f.status # "" \/ f.minAmount # Undefined \/ f.maxAmount # Undefined
    \/ f.startDate # Undefined \/ f.endDate # Undefined

getFilteredTransactions_strictMax(l, f) ==
  LET ByProvider(t) == t.provider = f.provider
      ByStatus(t) == t.status = f.status
      ByMin(t) == t.amount >= f.minAmount
      ByMax(t) == t.amount < f.maxAmount
      ByStart(t) == t.timestamp >= f.startDate
      ByEnd(t) == t.timestamp <= f.endDate
      f1 == IF f.provider # "" THEN SelectSeq(l, ByProvider) ELSE l
      f2 == IF f.status # "" THEN SelectSeq(f1, ByStatus) ELSE f1
      f3 == IF f.minAmount # Undefined THEN SelectSeq(f2, ByMin) ELSE f2
      f4 == IF f.maxAmount # Undefined THEN SelectSeq(f3, ByMax) ELSE f3
      f5 == IF f.startDate # Undefined THEN SelectSeq(f4, ByStart) ELSE f4
      f6 == IF f.endDate # Undefined THEN SelectSeq(f5, ByEnd) ELSE f5
  IN [result |-> SortByTimestamp(f6),
      transactions |-> IF Given(f) THEN l ELSE SortByTimestamp(f6)]

\* getFilteredTransactions: what it returns, and the transactions of the
\* service after it.  Each filter that is given makes a new array; the sort is
\* in place, so with no filter given the array sorted is the service's own.
getFilteredTransactions(l, f) ==
  LET ByProvider(t) == t.provider = f.provider
      ByStatus(t) == t.status = f.status
      ByMin(t) == t.amount >= f.minAmount
      ByMax(t) == t.amount <= f.maxAmount
      ByStart(t) == t.timestamp >= f.startDate
      ByEnd(t) == t.timestamp <= f.endDate
      f1 == IF f.provider # "" THEN SelectSeq(l, ByProvider) ELSE l
      f2 == IF f.status # "" THEN SelectSeq(f1, ByStatus) ELSE f1
      f3 == IF f.minAmount # Undefined THEN SelectSeq(f2, ByMin) ELSE f2
      f4 == IF f.maxAmount # Undefined THEN SelectSeq(f3, ByMax) ELSE f3
      f5 == IF f.startDate # Undefined THEN SelectSeq(f4, ByStart) ELSE f4
      f6 == IF f.endDate # Undefined THEN SelectSeq(f5, ByEnd) ELSE f5
  IN [result |-> SortByTimestamp(f6),
      transactions |-> IF Given(f) THEN l ELSE SortByTimestamp(f6)]

getTransactionById_first(l, id) == IF l = <<>> THEN <<>> ELSE <<Head(l)>>

\* Array.prototype.find: the first transaction of the id, <<>> for undefined
getTransactionById(l, id) ==
  LET ById(t) == t.id = id
      hits == SelectSeq(l, ById)
  IN IF hits = <<>> THEN <<>> ELSE <<Head(hits)>>

RECURSIVE SumAmount(_)
SumAmount(l) == IF l = <<>> THEN 0 ELSE Head(l).amount + SumAmount(Tail(l))
RECURSIVE SumRiskScore(_)
SumRiskScore(l) == IF l = <<>> THEN 0 ELSE Head(l).riskScore + SumRiskScore(Tail(l))
Count(l, Test(_)) == Len(SelectSeq(l, Test))

\* Math.round(averageRiskScore * 100) / 100, in hundredths, of sum / total
RoundedMean(sum, total) == (2 * sum + 10 * total) \div (20 * total)

getTransactionStats_successAll(l) ==
  LET IsBlocked(t) == t.status = "blocked"
      total == Len(l)
  IN [total |-> total, successful |-> total, blocked |-> Count(l, IsBlocked),
      totalAmount |-> SumAmount(l),
      averageRiskScore |-> IF total > 0 THEN RoundedMean(SumRiskScore(l), total) ELSE 0,
      providerBreakdown |->
        [p \in {l[i].provider : i \in DOMAIN l} |-> Cardinality({i \in DOMAIN l : l[i].provider = p})]]

\* getTransactionStats; averageRiskScore is in hundredths, providerBreakdown
\* has a key for each provider that has a transaction
getTransactionStats(l) ==
  LET IsSuccess(t) == t.status = "success"
      IsBlocked(t) == t.status = "blocked"
      total == Len(l)
  IN [total |-> total, successful |-> Count(l, IsSuccess), blocked |-> Count(l, IsBlocked),
      totalAmount |-> SumAmount(l),
      averageRiskScore |-> IF total > 0 THEN RoundedMean(SumRiskScore(l), total) ELSE 0,
      providerBreakdown |->
        [p \in {l[i].provider : i \in DOMAIN l} |-> Cardinality({i \in DOMAIN l : l[i].provider = p})]]

\* the ids looked up: 0 is an id no charge was given
LookupIds == {0} \cup ChargeIds

\* GET /transactions
CallGetFilteredTransactions(f) ==
  /\ query.op = "none"
  /\ LET got == getFilteredTransactions(ledger, f)
     IN /\ query' = [NoQuery EXCEPT !.op = "getFilteredTransactions", !.filters = f,
                                    !.list = got.result]
        /\ ledger' = got.transactions
  /\ UNCHANGED <<clock, llmVars, cache, subVars, lreq, rules, preq, pure>>

\* paymentService.getAllTransactions(): a copy of the array is sorted
CallGetAllTransactions ==
  /\ query.op = "none"
  /\ query' = [NoQuery EXCEPT !.op = "getAllTransactions", !.list = SortByTimestamp(ledger)]
  /\ UNCHANGED <<clock, llmVars, cache, subVars, lreq, rules, ledger, preq, pure>>

\* GET /transactions/:id
CallGetTransactionById(id) ==
  /\ query.op = "none"
  /\ query' = [NoQuery EXCEPT !.op = "getTransactionById", !.id = id,
                              !.found = getTransactionById(ledger, id)]
  /\ UNCHANGED <<clock, llmVars, cache, subVars, lreq, rules, ledger, preq, pure>>

CallGetTransactionStats ==
  /\ query.op = "none"
  /\ query' = [NoQuery EXCEPT !.op = "getTransactionStats", !.stats = getTransactionStats(ledger)]
  /\ UNCHANGED <<clock, llmVars, cache, subVars, lreq, rules, ledger, preq, pure>>

\* DELETE /transactions
clearTransactions ==
  /\ query.op = "none"
  /\ ledger' = <<>>
  /\ preq' = [q \in ChargeIds |->
       [preq[q] EXCEPT !.cleared = @ \/ \E i \in DOMAIN ledger : ledger[i].id = preq[q].transactionId]]
  /\ UNCHANGED <<clock, llmVars, cache, subVars, lreq, rules, pure, query>>

\* the caller is done with what the read operation returned
QueryReturn ==
  /\ query.op # "none"
  /\ query' = NoQuery
  /\ UNCHANGED <<clock, llmVars, cache, subVars, lreq, rules, ledger, preq, pure>>

\* -------------------------------- SubscriptionService: the read operations
\* An amount per month is a number of 1/MonthlyScale: 4.33 = 1299 / 300 and
\* 1 / 12 = 25 / 300.
MonthlyScale == 300

convertToMonthlyAmount(amount, interval) ==
  CASE interval = "daily" -> amount * 30 * MonthlyScale
    [] interval = "weekly" -> amount * 1299
    [] interval = "monthly" -> amount * MonthlyScale
    [] interval = "yearly" -> amount * 25
    [] OTHER -> amount * MonthlyScale

RECURSIVE SumMonthly(_, _)
SumMonthly(refs, h) ==
  IF refs = <<>> THEN 0
  ELSE convertToMonthlyAmount(h[Head(refs)].amount, h[Head(refs)].interval) + SumMonthly(Tail(refs), h)

Occurrences(list, x) == Cardinality({k \in DOMAIN list : list[k] = x})

RECURSIVE SumOccurrences(_, _, _)
SumOccurrences(refs, h, tag) ==
  IF refs = <<>> THEN 0
  ELSE Occurrences(h[Head(refs)].tags, tag) + SumOccurrences(Tail(refs), h, tag)

getSubscriptionStats_allSubscriptions(map, h) ==
  LET allSubscriptions == MapValues(map)
      active == allSubscriptions
      cancelled == SelectSeq(allSubscriptions, LAMBDA ref : ~h[ref].isActive)
      tags == UNION {{h[active[k]].tags[j] : j \in DOMAIN h[active[k]].tags} : k \in DOMAIN active}
      intervals == {h[active[k]].interval : k \in DOMAIN active}
  IN [threw |-> \E k \in DOMAIN active : ~h[active[k]].hasTags,
      stats |-> [totalActive |-> Len(active), totalCancelled |-> Len(cancelled),
                 monthlyRecurringRevenue |-> SumMonthly(active, h),
                 campaignsByTag |-> [t \in tags |-> SumOccurrences(active, h, t)],
                 intervalBreakdown |->
                   [i \in intervals |-> Cardinality({k \in DOMAIN active : h[active[k]].interval = i})]]]

\* getSubscriptionStats.  It throws where an active subscription has no tags
\* array (sub.tags.forEach).  The histograms have a key for each tag and each
\* interval counted.
getSubscriptionStats(map, h) ==
  LET allSubscriptions == MapValues(map)
      active == SelectSeq(allSubscriptions, LAMBDA ref : h[ref].isActive)
      cancelled == SelectSeq(allSubscriptions, LAMBDA ref : ~h[ref].isActive)
      tags == UNION {{h[active[k]].tags[j] : j \in DOMAIN h[active[k]].tags} : k \in DOMAIN active}
      intervals == {h[active[k]].interval : k \in DOMAIN active}
  IN [threw |-> \E k \in DOMAIN active : ~h[active[k]].hasTags,
      stats |-> [totalActive |-> Len(active), totalCancelled |-> Len(cancelled),
                 monthlyRecurringRevenue |-> SumMonthly(active, h),
                 campaignsByTag |-> [t \in tags |-> SumOccurrences(active, h, t)],
                 intervalBreakdown |->
                   [i \in intervals |-> Cardinality({k \in DOMAIN active : h[active[k]].interval = i})]]]

CallGetSubscriptionStats ==
  /\ query.op = "none"
  /\ LET got == getSubscriptionStats(subscriptions, heap)
     IN query' = [NoQuery EXCEPT !.op = "getSubscriptionStats", !.threw = got.threw,
                                 !.subscriptionStats = IF got.threw THEN NoSubscriptionStats
                                                       ELSE got.stats]
  /\ UNCHANGED <<clock, llmVars, cache, subVars, lreq, rules, ledger, preq, pure>>

\* the donors looked up: one of them never subscribes
LookupDonors == Donors \cup {"d0"}

CallGetSubscriptionByDonorId(donorId) ==
  /\ query.op = "none"
  /\ query' = [NoQuery EXCEPT !.op = "getSubscriptionByDonorId", !.donorId = donorId,
                              !.subscription = getSubscriptionByDonorId(donorId)]
  /\ UNCHANGED <<clock, llmVars, cache, subVars, lreq, rules, ledger, preq, pure>>

\* ------------------------------------------ the services and their readers
\* The two services share no state: a behaviour is one of the payment
\* service or one of the subscription service, with the read operations
\* called between the steps of the others.  Explanation generation is
\* disabled.
SubIdle ==
  /\ subscriptions = <<>> /\ heap = <<>> /\ lastCancel = NoCancel
  /\ \A p \in CreateIds : creq[p].pc = "idle"

NextLedger ==
  \/ Tick
  \/ \E q \in ChargeIds, request \in PayRequests, jitter \in PayJitters : ChargeStart(q, request, jitter)
  \/ \E q \in ChargeIds : ChargeResume(q)
  \/ \E q \in ChargeIds : ChargeReturn(q)
  \/ clearTransactions
  \/ \E f \in Filters : CallGetFilteredTransactions(f)
  \/ \E id \in LookupIds : CallGetTransactionById(id)
  \/ CallGetTransactionStats
  \/ CallGetAllTransactions

NextRegistry ==
  \/ \E p \in CreateIds, d \in Donors, a \in Amounts, i \in CreateIntervals, c \in CreateDescs :
       CreateRequest(p, d, a, i, c)
  \/ \E p \in CreateIds : CreateResume(p)
  \/ \E d \in Donors : cancelSubscription(d)
  \/ CallGetSubscriptionStats
  \/ \E d \in LookupDonors : CallGetSubscriptionByDonorId(d)

NextRead ==
  \/ query.op = "none" /\ SubIdle /\ NextLedger
  \/ query.op = "none" /\ PayIdle /\ NextRegistry
  \/ QueryReturn

SpecRead == InitDisabled /\ [][NextRead]_vars

\* The two charges of the scenarios, each with every value of Math.random.
\* One charge is looked at; the PaymentService was constructed with the rules
\* of config/fraudRules.json.
LowRiskRequest == [amount |-> 500, currency |-> "USD", source |-> "tok_visa", email |-> "user@gmail.com"]
HighRiskRequest == [amount |-> 100000, currency |-> "USD", source |-> "tok_test", email |-> "user@test.com"]
ScenarioRequests == {LowRiskRequest, HighRiskRequest}

NextScenario ==
  \/ Tick
  \/ /\ \A q \in ChargeIds : preq[q].pc = "idle"
     /\ \E q \in ChargeIds, request \in ScenarioRequests, jitter \in Jitters :
          ChargeStart(q, request, jitter)
  \/ \E q \in ChargeIds, o \in PaymentOutcomes : ChargeExternalAnswer(q, o)
  \/ \E q \in ChargeIds : ChargeResume(q)
  \/ \E q \in ChargeIds : ChargeReturn(q)

SpecScenario == InitPay /\ [][NextScenario]_vars

\* ------------------------------------------------- LLMService, called directly
\* the (riskScore, provider, riskFactors) of the explanation requests
PaymentDatas ==
  { [riskScore |-> 150, provider |-> "stripe", riskFactors |-> <<>>],
    [riskScore |-> 450, provider |-> "paypal", riskFactors |-> <<"large amount">>] }

PaymentKey(data) == createCacheKey("payment", StringifyPayment(data))
CampaignKey(description) == createCacheKey("campaign", StringifyCampaign(description))
ReqKey(req) == IF req.op = "payment" THEN PaymentKey(req.data) ELSE CampaignKey(req.description)

WriterOf(c, key) == IF key \in DOMAIN c THEN c[key].writer ELSE "none"

\* requests are numbered in the order they start
MayStart(r) == lreq[r].pc = "idle" /\ \A q \in ReqIds : q < r => lreq[q].pc # "idle"
NoneInFlight == \A q \in ReqIds : lreq[q].pc # "awaitExternal"

\* a call of generatePaymentExplanation, up to its return or its await
PaymentStart(r, data) ==
  /\ MayStart(r)
  /\ LET begun == PaymentBegin(cache, llmEnabled, data, clock)
     IN /\ cache' = begun.cache
        /\ lreq' = [lreq EXCEPT ![r] =
             [IdleReq EXCEPT !.pc = IF begun.done THEN "done" ELSE "awaitExternal",
                             !.op = "payment", !.data = data,
                             !.text = IF begun.done THEN begun.result ELSE "",
                             !.external = ~begun.done, !.hit = begun.hit,
                             !.hitWriter = IF begun.hit THEN WriterOf(cache, PaymentKey(data)) ELSE "none",
                             !.startedAt = clock, !.endedAt = clock]]
  /\ UNCHANGED <<clock, llmVars, payVars, subVars>>

\* a call of analyzeCampaign, up to its return or its await
CampaignStart(r, description) ==
  /\ MayStart(r)
  /\ LET begun == CampaignBegin(cache, llmEnabled, description, clock)
     IN /\ cache' = begun.cache
        /\ lreq' = [lreq EXCEPT ![r] =
             [IdleReq EXCEPT !.pc = IF begun.done THEN "done" ELSE "awaitExternal",
                             !.op = "campaign", !.description = description,
                             !.analysis = IF begun.done THEN begun.result ELSE NullValue,
                             !.external = ~begun.done, !.hit = begun.hit,
                             !.hitWriter = IF begun.hit THEN WriterOf(cache, CampaignKey(description)) ELSE "none",
                             !.startedAt = clock, !.endedAt = clock]]
  /\ UNCHANGED <<clock, llmVars, payVars, subVars>>

\* the external generator answers the call of request r, which runs to its return
PaymentAnswer(r, outcome) ==
  /\ lreq[r].pc = "awaitExternal" /\ lreq[r].op = "payment"
  /\ LET ended == PaymentEnd(cache, lreq[r].data, outcome, clock, cacheTTL)
     IN /\ cache' = ended.cache
        /\ lreq' = [lreq EXCEPT ![r].pc = "done", ![r].text = ended.result,
                                ![r].outcome = outcome, ![r].endedAt = clock]
  /\ UNCHANGED <<clock, llmVars, payVars, subVars>>

CampaignAnswer(r, outcome) ==
  /\ lreq[r].pc = "awaitExternal" /\ lreq[r].op = "campaign"
  /\ LET ended == CampaignEnd(cache, lreq[r].description, outcome, clock, cacheTTL)
     IN /\ cache' = ended.cache
        /\ lreq' = [lreq EXCEPT ![r].pc = "done", ![r].analysis = ended.result,
                                ![r].outcome = outcome, ![r].endedAt = clock]
  /\ UNCHANGED <<clock, llmVars, payVars, subVars>>

NextLLM ==
  \/ Tick
  \/ \E r \in ReqIds, data \in PaymentDatas : PaymentStart(r, data)
  \/ \E r \in ReqIds, c \in Descs : CampaignStart(r, c)
  \/ \E r \in ReqIds, o \in PaymentOutcomes : PaymentAnswer(r, o)
  \/ \E r \in ReqIds, o \in CampaignOutcomes : CampaignAnswer(r, o)

SpecLLM == Init /\ [][NextLLM]_vars

\* the same, with each call made after the one before it has returned
NextSeq ==
  \/ Tick
  \/ \E r \in ReqIds, data \in PaymentDatas : NoneInFlight /\ PaymentStart(r, data)
  \/ \E r \in ReqIds, c \in Descs : NoneInFlight /\ CampaignStart(r, c)
  \/ \E r \in ReqIds, o \in PaymentOutcomes : PaymentAnswer(r, o)
  \/ \E r \in ReqIds, o \in CampaignOutcomes : CampaignAnswer(r, o)

SpecSeq == Init /\ [][NextSeq]_vars

\* ------------------------------------------ LLMService, with cache sweeps
\* Two LLMService objects of the same configuration get the same calls at
\* the same times, and the external generator gives both the same answers.
\* clearExpiredCache is called on the first only (cache, lreq); the second is
\* twin.
\* A call of generatePaymentExplanation or analyzeCampaign on the cache c, up
\* to its return or its await: the cache and the call after it
StartOn(c, op, data, description, now) ==
  LET begun == IF op = "payment" THEN PaymentBegin(c, llmEnabled, data, now)
               ELSE CampaignBegin(c, llmEnabled, description, now)
  IN [cache |-> begun.cache,
      req |-> [IdleReq EXCEPT !.pc = IF begun.done THEN "done" ELSE "awaitExternal",
                              !.op = op, !.data = data, !.description = description,
                              !.text = IF begun.done /\ op = "payment" THEN begun.result ELSE "",
                              !.analysis = IF begun.done /\ op = "campaign" THEN begun.result
                                           ELSE NullValue,
                              !.external = ~begun.done, !.hit = begun.hit,
                              !.startedAt = now, !.endedAt = now]]

\* the answer of the external generator to the call req, which runs to its
\* return; a call that made no external call gets none
AnswerOn(c, req, outcome, now) ==
  IF req.pc # "awaitExternal" THEN [cache |-> c, req |-> req]
  ELSE IF req.op = "payment"
  THEN LET ended == PaymentEnd(c, req.data, outcome, now, cacheTTL)
       IN [cache |-> ended.cache,
           req |-> [req EXCEPT !.pc = "done", !.text = ended.result, !.outcome = outcome,
                               !.endedAt = now]]
  ELSE LET ended == CampaignEnd(c, req.description, outcome, now, cacheTTL)
       IN [cache |-> ended.cache,
           req |-> [req EXCEPT !.pc = "done", !.analysis = ended.result, !.outcome = outcome,
                               !.endedAt = now]]

BothStart(r, op, data, description) ==
  /\ MayStart(r)
  /\ LET one == StartOn(cache, op, data, description, clock)
         two == StartOn(twin.cache, op, data, description, clock)
     IN /\ cache' = one.cache
        /\ lreq' = [lreq EXCEPT ![r] = one.req]
        /\ twin' = [cache |-> two.cache, lreq |-> [twin.lreq EXCEPT ![r] = two.req]]
  /\ UNCHANGED <<clock, llmEnabled, cacheTTL, transactionService, payVars, subVars>>

BothAnswer(r, outcome) ==
  /\ lreq[r].pc = "awaitExternal" \/ twin.lreq[r].pc = "awaitExternal"
  /\ outcome \in (IF lreq[r].op = "payment" THEN PaymentOutcomes ELSE CampaignOutcomes)
  /\ LET one == AnswerOn(cache, lreq[r], outcome, clock)
         two == AnswerOn(twin.cache, twin.lreq[r], outcome, clock)
     IN /\ cache' = one.cache
        /\ lreq' = [lreq EXCEPT ![r] = one.req]
        /\ twin' = [cache |-> two.cache, lreq |-> [twin.lreq EXCEPT ![r] = two.req]]
  /\ UNCHANGED <<clock, llmEnabled, cacheTTL, transactionService, payVars, subVars>>

\* llmService.clearExpiredCache()
CallClearExpiredCache ==
  /\ cache' = clearExpiredCache(cache, clock)
  /\ UNCHANGED <<clock, llmVars, payVars, subVars, lreq>>

NextSweep ==
  \/ Tick
  \/ \E r \in ReqIds, data \in PaymentDatas : BothStart(r, "payment", data, "")
  \/ \E r \in ReqIds, c \in Descs : BothStart(r, "campaign", NoData, c)
  \/ \E r \in ReqIds, o \in PaymentOutcomes \cup CampaignOutcomes : BothAnswer(r, o)
  \/ CallClearExpiredCache

SpecSweep == Init /\ [][NextSweep]_vars

\* ------------------------------------------------------------------ claims
Running == {w \in SweepIds : sweep[w].pc # "idle"}
TxIds == 1..Len(transactions)
SubIds == 1..Len(heap)

\* C1: at any time at most one sweep has started and not yet finished; a
\* trigger that arrives while a sweep is running starts nothing.
C1_AtMostOneSweepRunning == Cardinality(Running) <= 1

\* C2: with no time elapsed, a subscription is charged successfully at most
\* once, however the sweeps are triggered and interleaved: no two success
\* transactions of one subscription carry the same time, and after a success
\* at time t the subscription's nextChargeAt is later than t.
C2_ChargedAtMostOnce ==
  /\ \A i, j \in TxIds :
       (i < j /\ transactions[i].subscriptionId = transactions[j].subscriptionId
          /\ transactions[i].status = "success" /\ transactions[j].status = "success")
       => transactions[i].timestamp # transactions[j].timestamp
  /\ \A i \in TxIds :
       transactions[i].status = "success"
       => heap[transactions[i].subscriptionId].nextChargeAt > transactions[i].timestamp

\* two sweeps started at the same time are both in progress over a
\* subscription that one of them has just charged successfully
C2_Witness ==
  \E s \in SubIds :
    /\ \A w \in SweepIds :
         sweep[w].pc = "suspended" /\ sweep[w].now = clock
           /\ \E k \in 1..Len(sweep[w].list) : sweep[w].list[k] = s
    /\ \E i \in TxIds : /\ transactions[i].subscriptionId = s
                        /\ transactions[i].status = "success"
                        /\ transactions[i].timestamp = clock

\* C3: no transaction is appended for a subscription, and its lastChargedAt
\* and nextChargeAt are not changed, at a moment when its isActive is false.
C3_CancelledNeverCharged ==
  [][ /\ Len(transactions') > Len(transactions)
         => heap[transactions'[Len(transactions')].subscriptionId].isActive
      /\ \A s \in SubIds :
           ~heap[s].isActive => /\ heap'[s].lastChargedAt = heap[s].lastChargedAt
                                /\ heap'[s].nextChargeAt = heap[s].nextChargeAt ]_vars

\* C4: cancelSubscription returns true exactly when the donor has a
\* subscription that is still active: false for an unknown donor, true for
\* the first cancel, false for a second cancel with no create in between.
C4_CancelResult ==
  lastCancel.called => (lastCancel.result = (lastCancel.existed /\ lastCancel.wasActive))

\* C5: the record the registry holds for a donor is never replaced while it
\* is active, however the create requests overlap.
C5_ActiveNeverReplaced ==
  [][ \A d \in Donors :
        LET ref == MapGet(subscriptions, d)
        IN (ref # 0 /\ heap[ref].isActive) => MapGet(subscriptions', d) = ref ]_vars

\* C6: whatever the external generator answers, the create request
\* completes normally: createSubscription raises no error to its caller.
C6_CreateNeverFails == \A p \in CreateIds : creq[p].pc # "error"

SameInput(a, b) == a.op = b.op /\ a.data = b.data /\ a.description = b.description
SameResult(a, b) == a.text = b.text /\ a.analysis = b.analysis

\* the external answer is one the operation stores in the cache
Stored(req) ==
  /\ req.external /\ req.outcome.kind = "content"
  /\ req.op = "campaign" => (Trim(req.outcome.text) # "" /\ JSONParse(Trim(req.outcome.text)).ok)

\* C8, as stated: of two sequential calls with the same inputs, the second
\* made within the TTL after the first, the second returns what the first
\* returned and makes no external call.
C8_SecondCallHits ==
  \A a, b \in ReqIds :
    (a < b /\ llmEnabled /\ lreq[a].pc = "done" /\ lreq[b].pc # "idle"
       /\ SameInput(lreq[a], lreq[b]) /\ lreq[b].startedAt - lreq[a].endedAt <= cacheTTL)
    => (~lreq[b].external /\ lreq[b].pc = "done" /\ SameResult(lreq[a], lreq[b]))

\* C8, amended: the same, for a first call whose external call answered with
\* a text the operation stores (any text for generatePaymentExplanation,
\* non-empty parseable JSON for analyzeCampaign).
C8_SecondCallHitsStored ==
  \A a, b \in ReqIds :
    (a < b /\ llmEnabled /\ lreq[a].pc = "done" /\ lreq[b].pc # "idle" /\ Stored(lreq[a])
       /\ SameInput(lreq[a], lreq[b]) /\ lreq[b].startedAt - lreq[a].endedAt <= cacheTTL)
    => (~lreq[b].external /\ lreq[b].pc = "done" /\ SameResult(lreq[a], lreq[b]))

\* a second call returned the stored result of the first, one TTL later
C8_Witness ==
  /\ llmEnabled /\ cacheTTL > 0
  /\ lreq[1].pc = "done" /\ Stored(lreq[1])
  /\ lreq[2].pc = "done" /\ SameInput(lreq[1], lreq[2]) /\ lreq[2].hit
  /\ lreq[2].startedAt = lreq[1].endedAt + cacheTTL

\* C9: a call that reads a key whose entry is older than its ttl deletes the
\* entry and goes on to the external call; a call that reads it at or before
\* timestamp + ttl returns the stored response and leaves the cache alone.
C9_LazyExactExpiry ==
  [][ \A r \in ReqIds :
        (llmEnabled /\ lreq[r].pc = "idle" /\ lreq'[r].pc # "idle"
           /\ ReqKey(lreq'[r]) \in DOMAIN cache)
        => LET key == ReqKey(lreq'[r])
               entry == cache[key]
           IN IF clock - entry.timestamp > entry.ttl
              THEN key \notin DOMAIN cache' /\ lreq'[r].pc = "awaitExternal" /\ lreq'[r].external
              ELSE /\ cache' = cache /\ lreq'[r].pc = "done" /\ ~lreq'[r].external
                   /\ IF lreq'[r].op = "payment"
                      THEN lreq'[r].text = entry.response
                      ELSE lreq'[r].analysis = JSONParse(entry.response).value ]_vars

\* a call found the entry of an earlier call expired and is at its own external call
C9_Witness ==
  /\ llmEnabled
  /\ lreq[1].pc = "done" /\ Stored(lreq[1])
  /\ lreq[2].pc = "awaitExternal" /\ SameInput(lreq[1], lreq[2])
  /\ lreq[2].startedAt - lreq[1].endedAt > cacheTTL
  /\ ReqKey(lreq[2]) \notin DOMAIN cache

PaymentKeys == {PaymentKey(data) : data \in PaymentDatas}
CampaignKeys == {CampaignKey(c) : c \in Descs}

\* C10: an entry is only ever read by the operation that wrote it, and the
\* keys of the two operations are disjoint.
C10_KeySpacesDisjoint ==
  /\ \A r \in ReqIds : lreq[r].hit => lreq[r].hitWriter = lreq[r].op
  /\ \A key \in DOMAIN cache :
       /\ cache[key].writer = "payment" => key \in PaymentKeys \ CampaignKeys
       /\ cache[key].writer = "campaign" => key \in CampaignKeys \ PaymentKeys

\* with an entry of generatePaymentExplanation in the cache, analyzeCampaign
\* has looked up its own key, found nothing and gone on to its external call
C10_Witness ==
  /\ lreq[1].op = "payment" /\ Stored(lreq[1])
  /\ \E key \in DOMAIN cache : cache[key].writer = "payment"
  /\ lreq[2].op = "campaign" /\ lreq[2].pc = "awaitExternal"
  /\ lreq[2].startedAt = lreq[1].endedAt

\* C11: once the shutdown handler has run, no sweep is started by the
\* periodic timer any more.
C11_NoTimerSweepAfterShutdown ==
  [][ proc # "running"
      => \A w \in SweepIds : ~(sweep[w].pc = "idle" /\ sweep'[w].pc # "idle" /\ sweep'[w].by = "timer") ]_vars

\* the sweep that takes the step, and the `now` it runs with
Acting(w) == sweep'[w] # sweep[w]
SweepNow(w) == IF sweep[w].pc = "idle" THEN clock ELSE sweep[w].now
Appended == Len(transactions') = Len(transactions) + 1
LastTx == transactions'[Len(transactions')]
\* the days of an interval
IntervalDays(interval) == IF interval = "daily" THEN 1 ELSE 7
InList(s, list) == \E k \in 1..Len(list) : list[k] = s
TxOf(s) == {i \in TxIds : transactions[i].subscriptionId = s}

\* C12: a sweep step whose simulated charge succeeds appends exactly one
\* success transaction that carries the subscription's id, donor, amount and
\* currency and the type recurring, sets lastChargedAt to the charge time and
\* nextChargeAt to the charge time plus the interval; the subscription was
\* due, and a sweep changes no subscription that is not due at its `now`.
C12_SuccessfulCharge ==
  [][ \A w \in SweepIds : Acting(w) =>
        /\ transactions' = transactions \/ (Appended /\ SubSeq(transactions', 1, Len(transactions)) = transactions)
        /\ (Appended /\ LastTx.status = "success") =>
             LET s == LastTx.subscriptionId
             IN /\ heap[s].nextChargeAt <= SweepNow(w)
                /\ LastTx.donorId = heap[s].donorId /\ LastTx.amount = heap[s].amount
                /\ LastTx.currency = heap[s].currency /\ LastTx.type = "recurring"
                /\ LastTx.timestamp = clock
                /\ heap'[s].lastChargedAt = clock
                /\ heap'[s].nextChargeAt = clock + IntervalDays(heap[s].interval)
        /\ \A s \in SubIds : heap[s].nextChargeAt > SweepNow(w) =>
             /\ heap'[s] = heap[s]
             /\ Appended => LastTx.subscriptionId # s ]_vars

\* a sweep over two subscriptions has charged the one that was due and has
\* passed over the one that was not
C12_Witness ==
  \E w \in SweepIds, s, u \in SubIds :
    /\ sweep[w].pc = "suspended" /\ sweep[w].idx > Len(sweep[w].list)
    /\ InList(s, sweep[w].list) /\ InList(u, sweep[w].list)
    /\ heap[u].nextChargeAt > sweep[w].now /\ TxOf(u) = {}
    /\ \E i \in TxOf(s) : transactions[i].status = "success"
                             /\ heap[s].lastChargedAt = transactions[i].timestamp

\* C13: a sweep step whose simulated charge fails appends exactly one failed
\* transaction and leaves the subscription as it was.
C13_FailedCharge ==
  [][ \A w \in SweepIds : (Acting(w) /\ transactions' # transactions /\ LastTx.status = "failed") =>
        LET s == LastTx.subscriptionId
        IN /\ Appended /\ SubSeq(transactions', 1, Len(transactions)) = transactions
           /\ LastTx.donorId = heap[s].donorId /\ LastTx.type = "recurring"
           /\ heap'[s].nextChargeAt = heap[s].nextChargeAt
           /\ heap'[s].lastChargedAt = heap[s].lastChargedAt
           /\ heap'[s].isActive = heap[s].isActive
           /\ heap' = heap ]_vars

\* the only charge of an active subscription so far has failed, and the
\* subscription is still due
C13_Witness ==
  \E s \in SubIds :
    /\ TxOf(s) # {} /\ \A i \in TxOf(s) : transactions[i].status = "failed"
    /\ heap[s].isActive /\ heap[s].lastChargedAt = -1 /\ heap[s].nextChargeAt <= clock

\* the last charge of subscription s so far is transaction i, and it failed
LastFailed(s, i) ==
  /\ i \in TxOf(s) /\ transactions[i].status = "failed"
  /\ \A j \in TxOf(s) : j <= i

C15_NextChargeLater ==
  pure.op = "calculateNextChargeDate"
  => /\ pure.date > pure.baseDate
     /\ ~IsDue([nextChargeAt |-> pure.date], pure.baseDate)

\* a yearly subscription charged on 29 February
C15_Witness ==
  /\ pure.op = "calculateNextChargeDate" /\ pure.interval = "yearly"
  /\ GetMonth(pure.baseDate) = 2 /\ GetDate(pure.baseDate) = 29

\* the length in days of the interval that starts at date t, for a date
\* before 1 March: the month of t, the year of t
IntervalLength(interval, t) ==
  CASE interval = "daily" -> 1
    [] interval = "weekly" -> 7
    [] interval = "monthly" -> DaysInMonth(GetFullYear(t), GetMonth(t))
    [] interval = "yearly" -> DaysInYear(GetFullYear(t))

\* C16: the subscription createSubscription stores is active, has no
\* lastChargedAt, is created now and has nextChargeAt = createdAt + interval
\* (7 days for weekly); it is stored under its donor, and it is the one the
\* request returns.
C16_CreatedSubscription ==
  [][ Len(heap') # Len(heap) =>
        LET n == heap'[Len(heap')]
        IN /\ Len(heap') = Len(heap) + 1 /\ SubSeq(heap', 1, Len(heap)) = heap
           /\ n.id = Len(heap') /\ n.isActive /\ n.lastChargedAt = -1
           /\ n.createdAt = clock
           /\ n.nextChargeAt = n.createdAt + IntervalLength(n.interval, n.createdAt)
           /\ n.interval = "weekly" => n.nextChargeAt = n.createdAt + 7
           /\ MapGet(subscriptions', n.donorId) = n.id
           /\ \A p \in CreateIds :
                (creq'[p] # creq[p] /\ creq'[p].pc = "created") => creq'[p].subscription = n.id ]_vars

\* a request has returned the weekly subscription it created
C16_Witness ==
  \E p \in CreateIds :
    /\ creq[p].pc = "created"
    /\ heap[creq[p].subscription].interval = "weekly"
    /\ heap[creq[p].subscription].nextChargeAt = heap[creq[p].subscription].createdAt + 7
    /\ MapGet(subscriptions, heap[creq[p].subscription].donorId) = creq[p].subscription

\* C17: a subscription record that is not active is not active after any
\* step: no sweep, cancel or create sets isActive back to true.
C17_CancelTerminal ==
  [][ \A s \in SubIds : ~heap[s].isActive => (s <= Len(heap') /\ ~heap'[s].isActive) ]_vars

\* a cancelled subscription has been cancelled a second time, and a sweep
\* has run over the registry since
C17_Witness ==
  \E s \in SubIds :
    /\ ~heap[s].isActive /\ MapGet(subscriptions, heap[s].donorId) = s
    /\ lastCancel.called /\ lastCancel.existed /\ ~lastCancel.wasActive
    /\ transactions # <<>>

LedgerIds == 1..Len(ledger)
Returned == {q \in ChargeIds : preq[q].pc = "done"}

\* C18: the score calculateRiskScore returns is between 0 and 1, for the
\* default and the custom rules and every value of the random part; so is
\* the riskScore of every transaction of the ledger and of every response.
C18_RiskScoreInRange ==
  /\ pure.op = "calculateRiskScore" => (0 <= pure.score /\ pure.score <= One)
  /\ \A q \in ChargeIds : 0 <= preq[q].riskScore /\ preq[q].riskScore <= One
  /\ \A i \in LedgerIds : 0 <= ledger[i].riskScore /\ ledger[i].riskScore <= One
  /\ \A q \in Returned : 0 <= preq[q].response.riskScore /\ 10 * preq[q].response.riskScore <= One

\* a charge whose parts add up to more than 1 is in the ledger and has
\* been answered, both with the score 1
C18_Witness ==
  \E q \in Returned, i \in LedgerIds :
    /\ ledger[i].id = preq[q].transactionId
    /\ \E jitter \in PayJitters : calculateRiskScore_noClamp(rules, preq[q].request, jitter) > One
    /\ ledger[i].riskScore = One /\ 10 * preq[q].response.riskScore = One

\* C20: in every transaction of the ledger and in every response, the
\* provider is blocked exactly when the status is blocked, and the status is
\* success otherwise.
C20_BlockedIffBlocked ==
  /\ \A i \in LedgerIds :
       /\ (ledger[i].provider = "blocked") <=> (ledger[i].status = "blocked")
       /\ ledger[i].provider # "blocked" => ledger[i].status = "success"
  /\ \A q \in Returned :
       /\ (preq[q].response.provider = "blocked") <=> (preq[q].response.status = "blocked")
       /\ preq[q].response.provider # "blocked" => preq[q].response.status = "success"

\* the ledger holds a blocked charge and a routed one, both answered
C20_Witness ==
  /\ Returned = ChargeIds
  /\ \E i, j \in LedgerIds : /\ ledger[i].provider = "blocked" /\ ledger[i].status = "blocked"
                               /\ ledger[j].provider = "stripe" /\ ledger[j].status = "success"

\* C21: with the default rules, the charge of 500 USD from tok_visa and
\* user@gmail.com is routed to stripe with status success and a risk score
\* below 0.3, in the values processCharge computes, in the transaction it
\* stores and in the response it returns, whatever Math.random gave.
C21_LowRiskScenario ==
  \A q \in ChargeIds :
    preq[q].pc # "idle" /\ preq[q].request = LowRiskRequest =>
      /\ preq[q].provider = "stripe" /\ preq[q].status = "success" /\ preq[q].riskScore < 300
      /\ \A i \in LedgerIds : ledger[i].id = preq[q].transactionId =>
            ledger[i].provider = "stripe" /\ ledger[i].status = "success" /\ ledger[i].riskScore < 300
      /\ preq[q].pc = "done" =>
            /\ preq[q].response.provider = "stripe" /\ preq[q].response.status = "success"
            /\ 10 * preq[q].response.riskScore < 300

\* the charge has returned, with the highest value of Math.random
C21_Witness ==
  \E q \in Returned :
    /\ rules = DefaultRules /\ preq[q].request = LowRiskRequest
    /\ preq[q].riskScore = 149 /\ preq[q].response.provider = "stripe"

\* C22: the charge of 100000 USD from tok_test and user@test.com has a risk
\* score above 0.3, is routed to paypal or blocked, never to stripe, and its
\* risk factors include "large amount", "suspicious email domain" and
\* "test payment source", whatever Math.random gave.
C22_HighRiskScenario ==
  \A q \in ChargeIds :
    preq[q].pc # "idle" /\ preq[q].request = HighRiskRequest =>
      /\ preq[q].riskScore > 300 /\ preq[q].provider \in {"paypal", "blocked"}
      /\ \A f \in {"large amount", "suspicious email domain", "test payment source"} :
            \E k \in DOMAIN preq[q].riskFactors : preq[q].riskFactors[k] = f
      /\ \A i \in LedgerIds : ledger[i].id = preq[q].transactionId =>
            /\ ledger[i].riskScore > 300 /\ ledger[i].provider \in {"paypal", "blocked"}
            /\ ledger[i].metadata.riskFactors = preq[q].riskFactors
      /\ preq[q].pc = "done" =>
            /\ 10 * preq[q].response.riskScore > 300
            /\ preq[q].response.provider \in {"paypal", "blocked"}

\* the charge has returned, with the lowest value of Math.random
C22_Witness ==
  \E q \in Returned :
    /\ preq[q].request = HighRiskRequest /\ preq[q].riskScore = 800
    /\ Len(preq[q].riskFactors) = 3 /\ preq[q].response.provider = "blocked"

\* C23: for every highRiskAmountThreshold the amount risk is 0.4 above the
\* threshold, else 0.2 above 10000, else 0.1 above 1000, else 0.05, and it
\* never decreases when the amount grows.
C23_AmountRiskMonotone ==
  pure.op = "calculateAmountRisk" =>
    /\ pure.score = (IF pure.request.amount > rules.highRiskAmountThreshold THEN 400
                     ELSE IF pure.request.amount > 10000 THEN 200
                     ELSE IF pure.request.amount > 1000 THEN 100 ELSE 50)
    /\ pure.request.amount <= pure.other.amount => pure.score <= pure.otherScore

\* a threshold below 1000, one amount under it and a larger one between it and 1000
C23_Witness ==
  /\ pure.op = "calculateAmountRisk" /\ rules.highRiskAmountThreshold = 500
  /\ pure.request.amount = 500 /\ pure.other.amount = 501
  /\ pure.score = 50 /\ pure.otherScore = 400

\* C30 as stated: of two requests that differ only in the email, the one with
\* a configured suspicious substring has the strictly greater score, and of
\* two that differ only in the amount, the one above highRiskAmountThreshold
\* has a strictly greater score than the one of at most 1000, for every pair
\* of values of Math.random.
C30_SuspiciousScoresHigher ==
  pure.op = "compareRiskScores" =>
    /\ ( /\ OnlyEmailDiffers(pure.request, pure.other)
         /\ Some(rules.suspiciousDomains, pure.request.email)
         /\ ~Some(rules.suspiciousDomains, pure.other.email) ) => pure.score > pure.otherScore
    /\ ( /\ OnlyAmountDiffers(pure.request, pure.other)
         /\ pure.request.amount > rules.highRiskAmountThreshold
         /\ pure.other.amount <= 1000 ) => pure.score > pure.otherScore

\* C30, amended: the same, where the amount of at most 1000 is not itself
\* above highRiskAmountThreshold.
C30_SuspiciousScoresHigherBelowThreshold ==
  pure.op = "compareRiskScores" =>
    /\ ( /\ OnlyEmailDiffers(pure.request, pure.other)
         /\ Some(rules.suspiciousDomains, pure.request.email)
         /\ ~Some(rules.suspiciousDomains, pure.other.email) ) => pure.score > pure.otherScore
    /\ ( /\ OnlyAmountDiffers(pure.request, pure.other)
         /\ pure.request.amount > rules.highRiskAmountThreshold
         /\ pure.other.amount <= 1000
         /\ pure.other.amount <= rules.highRiskAmountThreshold ) => pure.score > pure.otherScore

\* the suspicious request with the lowest value of Math.random against the
\* other with the highest, and the same for the amounts
C30_Witness ==
  /\ pure.op = "compareRiskScores" /\ pure.jitter = 0 /\ pure.otherJitter = 99
  /\ \/ /\ OnlyEmailDiffers(pure.request, pure.other)
        /\ Some(rules.suspiciousDomains, pure.request.email)
        /\ ~Some(rules.suspiciousDomains, pure.other.email)
        /\ pure.score = pure.otherScore + 201
     \/ /\ OnlyAmountDiffers(pure.request, pure.other)
        /\ pure.request.amount > rules.highRiskAmountThreshold
        /\ pure.other.amount = 1000 /\ rules.highRiskAmountThreshold = 1000

TxSet(l) == {l[i] : i \in DOMAIN l}
RECURSIVE SumOf(_, _)
\* the sum of f over the set S
SumOf(S, f) ==
  IF S = {} THEN 0
  ELSE LET x == CHOOSE y \in S : TRUE IN f[x] + SumOf(S \ {x}, f)

\* t satisfies every predicate that the filters f give
Satisfies(t, f) ==
  /\ f.provider # "" => t.provider = f.provider
  /\ f.status # "" => t.status = f.status
  /\ f.minAmount # Undefined => f.minAmount <= t.amount
  /\ f.maxAmount # Undefined => t.amount <= f.maxAmount
  /\ f.startDate # Undefined => f.startDate <= t.timestamp
  /\ f.endDate # Undefined => t.timestamp <= f.endDate

\* C24: getFilteredTransactions returns the transactions of the ledger that
\* satisfy every predicate given, each once and no others, newest first by
\* timestamp; the results for the three providers, and those for the two
\* statuses, have sizes that sum to the size of the ledger.
C24_FilteredExactly ==
  /\ query.op = "getFilteredTransactions" =>
       /\ TxSet(query.list) = {t \in TxSet(ledger) : Satisfies(t, query.filters)}
       /\ Cardinality(TxSet(query.list)) = Len(query.list)
       /\ \A i, j \in DOMAIN query.list :
             i < j => query.list[i].timestamp >= query.list[j].timestamp
  /\ Len(getFilteredTransactions(ledger, [NoFilters EXCEPT !.provider = "stripe"]).result)
       + Len(getFilteredTransactions(ledger, [NoFilters EXCEPT !.provider = "paypal"]).result)
       + Len(getFilteredTransactions(ledger, [NoFilters EXCEPT !.provider = "blocked"]).result)
       = Len(ledger)
  /\ Len(getFilteredTransactions(ledger, [NoFilters EXCEPT !.status = "success"]).result)
       + Len(getFilteredTransactions(ledger, [NoFilters EXCEPT !.status = "blocked"]).result)
       = Len(ledger)

\* an amount range that keeps the transaction on its upper end and drops a larger one
C24_Witness ==
  /\ query.op = "getFilteredTransactions"
  /\ query.filters.minAmount = 1000 /\ query.filters.maxAmount = 10001
  /\ Len(ledger) = 2 /\ Len(query.list) = 1 /\ query.list[1].amount = 10001

\* C25 as stated: total is the size of the ledger, successful + blocked =
\* total, totalAmount is the sum of the amounts, the counts per provider sum
\* to total, and averageRiskScore is the mean risk score; on an empty ledger
\* the counts and the average are 0 and providerBreakdown is empty.
C25_StatsExactMean ==
  query.op = "getTransactionStats" =>
    LET st == query.stats
    IN /\ st.total = Len(ledger)
       /\ st.successful + st.blocked = st.total
       /\ st.totalAmount = SumOf(DOMAIN ledger, [i \in DOMAIN ledger |-> ledger[i].amount])
       /\ SumOf(DOMAIN st.providerBreakdown, st.providerBreakdown) = st.total
       /\ 10 * st.averageRiskScore * st.total
            = SumOf(DOMAIN ledger, [i \in DOMAIN ledger |-> ledger[i].riskScore])
       /\ ledger = <<>> => st = NoStats

\* C25, amended: the same, with averageRiskScore the mean risk score rounded
\* to two decimals.
C25_StatsRoundedMean ==
  query.op = "getTransactionStats" =>
    LET st == query.stats
        sum == SumOf(DOMAIN ledger, [i \in DOMAIN ledger |-> ledger[i].riskScore])
    IN /\ st.total = Len(ledger)
       /\ st.successful + st.blocked = st.total
       /\ st.totalAmount = SumOf(DOMAIN ledger, [i \in DOMAIN ledger |-> ledger[i].amount])
       /\ SumOf(DOMAIN st.providerBreakdown, st.providerBreakdown) = st.total
       /\ 10 * st.averageRiskScore * st.total - 5 * st.total <= sum
       /\ sum < 10 * st.averageRiskScore * st.total + 5 * st.total \/ st.total = 0
       /\ ledger = <<>> => st = NoStats

\* two transactions of two providers, with a mean that is not a number of hundredths
C25_Witness ==
  /\ query.op = "getTransactionStats" /\ query.stats.total = 2
  /\ query.stats.successful = 1 /\ query.stats.blocked = 1
  /\ (ledger[1].riskScore + ledger[2].riskScore) % 20 # 0

\* the active subscriptions of the registry, and the amount per month of one
ActiveRefs == {subscriptions[k].ref : k \in {j \in DOMAIN subscriptions : heap[subscriptions[j].ref].isActive}}
Normalized(sub) ==
  CASE sub.interval = "daily" -> sub.amount * 30 * MonthlyScale
    [] sub.interval = "weekly" -> (sub.amount * 433 * MonthlyScale) \div 100
    [] sub.interval = "monthly" -> sub.amount * MonthlyScale
    [] sub.interval = "yearly" -> (sub.amount * MonthlyScale) \div 12

\* C26: the statistics count the active subscriptions only.  The monthly
\* recurring revenue is the sum over them of the amount normalized (daily x30,
\* weekly x4.33, monthly x1, yearly /12): one active monthly subscription of
\* amount A gives A, one yearly gives A / 12.  A cancelled subscription is in
\* no histogram, and totalActive + totalCancelled is the number of donors of
\* the registry.
C26_StatsOverActive ==
  query.op = "getSubscriptionStats" /\ ~query.threw =>
    LET st == query.subscriptionStats
    IN /\ st.totalActive = Cardinality(ActiveRefs)
       /\ st.totalActive + st.totalCancelled = Len(subscriptions)
       /\ st.monthlyRecurringRevenue = SumOf(ActiveRefs, [ref \in ActiveRefs |-> Normalized(heap[ref])])
       /\ \A ref \in ActiveRefs :
             ActiveRefs = {ref} /\ heap[ref].interval = "monthly" =>
               st.monthlyRecurringRevenue = heap[ref].amount * MonthlyScale
       /\ \A ref \in ActiveRefs :
             ActiveRefs = {ref} /\ heap[ref].interval = "yearly" =>
               12 * st.monthlyRecurringRevenue = heap[ref].amount * MonthlyScale
       /\ DOMAIN st.campaignsByTag = UNION {TxSet(heap[ref].tags) : ref \in ActiveRefs}
       /\ \A t \in DOMAIN st.campaignsByTag :
             st.campaignsByTag[t] = Cardinality({ref \in ActiveRefs : t \in TxSet(heap[ref].tags)})
       /\ DOMAIN st.intervalBreakdown = {heap[ref].interval : ref \in ActiveRefs}
       /\ \A i \in DOMAIN st.intervalBreakdown :
             st.intervalBreakdown[i] = Cardinality({ref \in ActiveRefs : heap[ref].interval = i})

\* one active yearly subscription next to a cancelled one
C26_Witness ==
  /\ query.op = "getSubscriptionStats"
  /\ query.subscriptionStats.totalActive = 1 /\ query.subscriptionStats.totalCancelled = 1
  /\ \E ref \in ActiveRefs : heap[ref].interval = "yearly"
  /\ 12 * query.subscriptionStats.monthlyRecurringRevenue = 1500 * MonthlyScale

\* a lookup returns and nothing but its result has changed
LookupStep ==
  query.op = "none" /\ query'.op \in {"getTransactionById", "getSubscriptionByDonorId"}
    => UNCHANGED <<clock, llmVars, cache, subVars, lreq, rules, ledger, preq, pure>>

\* what getSubscriptionByDonorId returned is the record of the donor, or undefined
SubscriptionLookup ==
  query.op = "getSubscriptionByDonorId" =>
    /\ (\A k \in DOMAIN subscriptions : subscriptions[k].key # query.donorId) => query.subscription = 0
    /\ \A k \in DOMAIN subscriptions :
         subscriptions[k].key = query.donorId => query.subscription = subscriptions[k].ref

\* C27 as stated: getTransactionById returns undefined for an id that is not
\* in the ledger and the transaction appended for an id that processCharge
\* returned; getSubscriptionByDonorId returns undefined for a donor without a
\* record; neither lookup changes any state.
C27_LookupReturned ==
  /\ [](query.op = "getTransactionById" =>
         /\ (\A i \in DOMAIN ledger : ledger[i].id # query.id) => query.found = <<>>
         /\ \A q \in ChargeIds :
              preq[q].pc = "done" /\ preq[q].response.transactionId = query.id =>
                /\ query.found # <<>> /\ query.found[1] \in TxSet(ledger)
                /\ query.found[1].id = query.id
                /\ query.found[1].amount = preq[q].request.amount)
  /\ []SubscriptionLookup
  /\ [][LookupStep]_vars

\* C27, amended: the same, where the transaction appended for the id has not
\* been removed by clearTransactions.
C27_LookupReturnedUnlessCleared ==
  /\ [](query.op = "getTransactionById" =>
         /\ (\A i \in DOMAIN ledger : ledger[i].id # query.id) => query.found = <<>>
         /\ \A q \in ChargeIds :
              preq[q].pc = "done" /\ preq[q].response.transactionId = query.id
                /\ ~preq[q].cleared =>
                /\ query.found # <<>> /\ query.found[1] \in TxSet(ledger)
                /\ query.found[1].id = query.id
                /\ query.found[1].amount = preq[q].request.amount)
  /\ []SubscriptionLookup
  /\ [][LookupStep]_vars

\* the id of the second of two transactions, returned by processCharge and looked up
C27_Witness ==
  /\ query.op = "getTransactionById" /\ Len(ledger) = 2 /\ query.found = <<ledger[2]>>
  /\ \E q \in ChargeIds : preq[q].pc = "done" /\ preq[q].response.transactionId = query.id

\* the step of processCharge that pushes the transaction
Pushes(q) == preq[q].pc = "explained" /\ preq'[q].pc = "processing"

\* C28: the step of a processCharge call that stores the transaction appends
\* one transaction with the amount, currency, source and email of its
\* request, and its other steps append none; nothing else appends, and but
\* for clearTransactions every transaction of the ledger stays in it with
\* every field as it was, also where calls overlap.  (The order of the array
\* is not kept: getFilteredTransactions sorts it in place.)
C28_AppendOnly ==
  [][ /\ \A q \in ChargeIds :
           Pushes(q) =>
             /\ Len(ledger') = Len(ledger) + 1 /\ SubSeq(ledger', 1, Len(ledger)) = ledger
             /\ ledger'[Len(ledger')].id = preq[q].transactionId
             /\ ledger'[Len(ledger')].amount = preq[q].request.amount
             /\ ledger'[Len(ledger')].currency = preq[q].request.currency
             /\ ledger'[Len(ledger')].source = preq[q].request.source
             /\ ledger'[Len(ledger')].email = preq[q].request.email
      /\ (\A q \in ChargeIds : ~Pushes(q)) => Len(ledger') <= Len(ledger)
      /\ clearTransactions \/ (TxSet(ledger) \subseteq TxSet(ledger') /\ Len(ledger') >= Len(ledger))
    ]_vars

\* two calls that overlap: the one that began second has stored its transaction first
C28_Witness ==
  /\ Len(ledger) = 2 /\ ledger[1].id = 2 /\ ledger[2].id = 1
  /\ preq[1].pc = "processing" /\ preq[2].pc = "processing"

\* what a call has returned, and whether it made an external call
Observed(req) == [pc |-> req.pc, text |-> req.text, analysis |-> req.analysis, external |-> req.external]

\* C29: clearExpiredCache deletes the entries whose TTL has elapsed and leaves
\* every other entry as it was; and the calls of the service that is swept
\* return what the calls of the service that is never swept return, with an
\* external call made by the one where the other makes one.
C29_SweepNotRequired ==
  /\ [][CallClearExpiredCache =>
          /\ DOMAIN cache' = {k \in DOMAIN cache : ~(clock - cache[k].timestamp > cache[k].ttl)}
          /\ \A k \in DOMAIN cache' : cache'[k] = cache[k]]_vars
  /\ [](\A r \in ReqIds : Observed(lreq[r]) = Observed(twin.lreq[r]))

\* a sweep has deleted an expired entry that the other service still holds,
\* and a call made after the clock advanced has returned from its external call
C29_Witness ==
  /\ \E k \in DOMAIN twin.cache : k \notin DOMAIN cache /\ clock - twin.cache[k].timestamp > twin.cache[k].ttl
  /\ \E r \in ReqIds : lreq[r].pc = "done" /\ lreq[r].external /\ lreq[r].startedAt > 0

\* -------------------------------------------- getRiskFactors, called directly
\* A ChargeRequest is an object of the type {amount: number, currency: string,
\* source: string, email: string}: the methods of the FraudDetectionService
\* take any currency string, the upper case of the request schema or not.
TypedCurrencies == Currencies \cup {"usd", "eur"}
TypedRequests == [amount : ChargeAmounts, currency : TypedCurrencies, source : Sources, email : Emails]

\* fraudDetection.getRiskFactors(request) and
\* fraudDetection.calculateRiskScore(request) on the same request
CallGetRiskFactors(request, jitter) ==
  /\ pure.op = "none" /\ PayIdle
  /\ pure' = [NoCall EXCEPT !.op = "getRiskFactors", !.request = request, !.jitter = jitter,
                            !.riskFactors = getRiskFactors(rules, request),
                            !.score = calculateRiskScore(rules, request, jitter)]
  /\ UNCHANGED <<clock, llmVars, cache, subVars, lreq, rules, ledger, preq, query>>

NextFactors ==
  /\ pure.op = "none"
  /\ \/ \E custom \in CustomRules : NewFraudDetectionService(custom)
     \/ \E request \in TypedRequests, jitter \in PairJitters : CallGetRiskFactors(request, jitter)

SpecFactors == InitDisabled /\ [][NextFactors]_vars

\* the labels of a list
Labels(factors) == {factors[i] : i \in DOMAIN factors}

\* C31: getRiskFactors returns exactly the labels whose condition holds:
\* "large amount" iff amount > highRiskAmountThreshold, "suspicious email
\* domain" iff the email contains a configured substring, "non-USD currency"
\* iff the currency is not USD, "test payment source" iff the source contains
\* "test"; and each label is there exactly when the sub-score of
\* calculateRiskScore is at its elevated value (0.4 for the amount, 0.3 for
\* the domain, 0.05 or 0.15 for the currency, 0.1 for the source).
C31_LabelsMatchSubScores ==
  pure.op = "getRiskFactors" =>
    LET request == pure.request
        labels == Labels(pure.riskFactors)
    IN /\ Len(pure.riskFactors) = Cardinality(labels)
       /\ labels \subseteq {"large amount", "suspicious email domain", "non-USD currency",
                            "test payment source"}
       /\ "large amount" \in labels <=> request.amount > rules.highRiskAmountThreshold
       /\ "suspicious email domain" \in labels <=>
            \E i \in DOMAIN rules.suspiciousDomains :
              Includes(ToLowerCase(request.email), ToLowerCase(rules.suspiciousDomains[i]))
       /\ "non-USD currency" \in labels <=> request.currency # "USD"
       /\ "test payment source" \in labels <=> Includes(request.source, "test")
       /\ "large amount" \in labels <=> calculateAmountRisk(rules, request.amount) = 400
       /\ "suspicious email domain" \in labels <=> calculateDomainRisk(rules, request.email) = 300
       /\ "non-USD currency" \in labels <=> calculateCurrencyRisk(request.currency) \in {50, 150}
       /\ "test payment source" \in labels <=> calculateSourceRisk(request.source) = 100

\* The same for the requests that the request schema accepts (currency in
\* upper case): holds.
C31_LabelsMatchSubScoresUpperCase ==
  (pure.op = "getRiskFactors" /\ pure.request.currency = ToUpperCase(pure.request.currency)) =>
    LET request == pure.request
        labels == Labels(pure.riskFactors)
    IN /\ "large amount" \in labels <=> calculateAmountRisk(rules, request.amount) = 400
       /\ "suspicious email domain" \in labels <=> calculateDomainRisk(rules, request.email) = 300
       /\ "non-USD currency" \in labels <=> calculateCurrencyRisk(request.currency) \in {50, 150}
       /\ "test payment source" \in labels <=> calculateSourceRisk(request.source) = 100

\* ------------------------------------------- the fallback explanation
\* generatePaymentExplanation on the scores at and next to the limits of the
\* risk levels, with each provider, without and with risk factors
LevelScores == {0, 299, 300, 499, 500, 1000}
LevelDatas ==
  [riskScore : LevelScores, provider : {"stripe", "paypal", "blocked"},
   riskFactors : {<<>>, <<"large amount", "test payment source">>}]

NextFallback ==
  \/ \E r \in ReqIds, data \in LevelDatas : PaymentStart(r, data)
  \/ \E r \in ReqIds, o \in PaymentOutcomes : PaymentAnswer(r, o)

SpecFallback == Init /\ [][NextFallback]_vars

\* the call has returned the text of generateFallbackExplanation: the service
\* is disabled, the external call threw or it answered with an empty text
FallbackReturned(r) ==
  /\ lreq[r].pc = "done" /\ lreq[r].op = "payment" /\ ~lreq[r].hit
  /\ ~lreq[r].external \/ lreq[r].outcome.kind = "throw" \/ Trim(lreq[r].outcome.text) = ""

\* C32: the fallback explanation names a risk level that is low for a score
\* below 0.3, moderate for a score from 0.3 and below 0.5, and high
\* otherwise; it names the decision, "Transaction blocked" exactly when the
\* provider is blocked and the provider otherwise; and two calls with the
\* same (score, provider, factors) return the same text.
C32_FallbackLevelAndDecision ==
  \A r \in ReqIds : FallbackReturned(r) =>
    LET data == lreq[r].data
        text == lreq[r].text
    IN /\ Includes(text, " low risk score") <=> data.riskScore < 300
       /\ Includes(text, " moderate risk score") <=> (300 <= data.riskScore /\ data.riskScore < 500)
       /\ Includes(text, " high risk score") <=> data.riskScore >= 500
       /\ Includes(text, "Transaction blocked") <=> data.provider = "blocked"
       /\ SubSeq(text, 1, 19) = "Transaction blocked" <=> data.provider = "blocked"
       /\ data.provider # "blocked" =>
            SubSeq(text, 1, 18 + Len(data.provider)) = "Payment routed to " \o ToUpperCase(data.provider)
       /\ \A q \in ReqIds : (FallbackReturned(q) /\ lreq[q].data = data) => lreq[q].text = text

\* two calls with the same blocked payment of score 0.3 have returned the
\* fallback, one after an error of the external call and one after an empty answer
C32_Witness ==
  /\ FallbackReturned(1) /\ FallbackReturned(2) /\ lreq[1].data = lreq[2].data
  /\ lreq[1].data.riskScore = 300 /\ lreq[1].data.provider = "blocked"
  /\ lreq[1].outcome.kind = "throw" /\ lreq[2].outcome.kind = "content"

\* C33: in a service that is disabled by configuration, or that has no
\* external client, generatePaymentExplanation and analyzeCampaign return
\* the fallback result at once, make no external call, and leave the cache
\* as it was: nothing is deleted from it and nothing is written to it.
C33_DisabledReturnsFallback ==
  [][\A r \in ReqIds : (~llmEnabled /\ lreq[r].pc = "idle" /\ lreq'[r].pc # "idle") =>
       /\ lreq'[r].pc = "done" /\ ~lreq'[r].external /\ ~lreq'[r].hit
       /\ cache' = cache
       /\ lreq'[r].op = "payment" =>
            lreq'[r].text = generateFallbackExplanation(lreq'[r].data.riskScore,
                                                        lreq'[r].data.provider,
                                                        lreq'[r].data.riskFactors)
       /\ lreq'[r].op = "campaign" =>
            lreq'[r].analysis = generateFallbackCampaignAnalysis(lreq'[r].description)
    ]_vars

\* a disabled service has returned from a call of each method
C33_Witness ==
  /\ ~llmEnabled /\ cache = <<>>
  /\ lreq[1].pc = "done" /\ lreq[1].op = "payment" /\ ~lreq[1].external
  /\ lreq[2].pc = "done" /\ lreq[2].op = "campaign" /\ ~lreq[2].external

\* C34: the cache holds results of the external generator only: the entry
\* that generatePaymentExplanation wrote is the trimmed text of an external
\* answer, the entry that analyzeCampaign wrote is the analysis parsed from
\* one; a fallback explanation or analysis is never written to the cache.
C34_CacheHoldsExternalResults ==
  \A k \in DOMAIN cache :
    /\ cache[k].writer = "payment" =>
         \E t \in PaymentContents : Trim(t) # "" /\ cache[k].response = Trim(t)
    /\ cache[k].writer = "campaign" =>
         \E t \in CampaignContents :
           /\ Trim(t) # "" /\ JSONParse(Trim(t)).ok
           /\ cache[k].response = JSONStringify(JSONParse(Trim(t)).value)

\* what a call of either method has returned
ResultOf(req) == IF req.op = "payment" THEN req.text ELSE req.analysis

\* C35: of two requests with the same cache key, the second starting while
\* the first is suspended in its external call, at most one makes an
\* external call (no two external calls for one key are in flight), and
\* both return the same result.
C35_OneExternalCallPerKey ==
  /\ [](\A r \in ReqIds, q \in ReqIds :
          (r # q /\ lreq[r].pc = "awaitExternal" /\ lreq[q].pc = "awaitExternal")
            => ReqKey(lreq[r]) # ReqKey(lreq[q]))
  /\ [][\A r \in ReqIds, q \in ReqIds :
          (/\ r < q /\ ReqKey(lreq[r]) = ReqKey(lreq[q])
           /\ lreq[r].pc = "awaitExternal" /\ lreq[q].pc = "done" /\ lreq'[r].pc = "done")
            => ResultOf(lreq'[r]) = ResultOf(lreq'[q])]_vars

\* a read operation of the PaymentService is called in this step
ReadsLedger ==
  /\ query.op = "none"
  /\ query'.op \in {"getFilteredTransactions", "getAllTransactions", "getTransactionById",
                    "getTransactionStats"}

\* C36: getFilteredTransactions, getAllTransactions, getTransactionById and
\* getTransactionStats are read-only: with every set of filters, the empty
\* one too, a call leaves the transactions of the ledger and the order they
\* are stored in as they were.
C36_ReadsLeaveLedger ==
  [][ReadsLedger => ledger' = ledger]_vars

\* ------------------------------------------- processCharge, every score
\* One call of processCharge, of a PaymentService constructed with the rules
\* of the configuration or with custom rules.
NextRounding ==
  \/ /\ pure.op = "none"
     /\ \E custom \in CustomRules : NewFraudDetectionService(custom)
  \/ /\ \A q \in ChargeIds : preq[q].pc = "idle"
     /\ \E q \in ChargeIds, request \in ChargeRequests, jitter \in Jitters :
          ChargeStart(q, request, jitter)
  \/ \E q \in ChargeIds : ChargeResume(q)
  \/ \E q \in ChargeIds : ChargeReturn(q)

SpecRounding == InitDisabled /\ [][NextRounding]_vars

\* C37: the response of processCharge agrees with the routing rule: the rule
\* applied to the riskScore of the response, which is rounded to 2 decimals,
\* gives the provider of the response.  A returned riskScore that is at most
\* the stripeThreshold (and below the blockingThreshold) comes with stripe,
\* one that is at least the blockingThreshold comes with blocked.
C37_ResponseAgreesWithRule ==
  \A q \in ChargeIds : preq[q].pc = "done" =>
    determineProvider(rules, 10 * preq[q].response.riskScore) = preq[q].response.provider

\* -------------------------------------- the /subscription-transactions routes
\* GET /subscription-transactions: getTransactions() of the SubscriptionService
\* that the module of these routes constructs
CallGetTransactions ==
  /\ query.op = "none"
  /\ query' = [NoQuery EXCEPT !.op = "getTransactions",
                              !.list = SortByTimestamp(transactionService.transactions)]
  /\ UNCHANGED <<clock, llmVars, cache, subVars, lreq, rules, ledger, preq, pure>>

\* GET /subscription-transactions/:donorId: getTransactionsByDonor(donorId)
CallGetTransactionsByDonor(donorId) ==
  /\ query.op = "none"
  /\ LET ByDonor(t) == t.donorId = donorId
     IN query' = [NoQuery EXCEPT !.op = "getTransactionsByDonor", !.donorId = donorId,
                                 !.list = SortByTimestamp(SelectSeq(transactionService.transactions,
                                                                    ByDonor))]
  /\ UNCHANGED <<clock, llmVars, cache, subVars, lreq, rules, ledger, preq, pure>>

NextVisible ==
  \/ query.op = "none" /\ Next
  \/ CallGetTransactions
  \/ \E d \in LookupDonors : CallGetTransactionsByDonor(d)
  \/ QueryReturn

SpecVisible == InitDisabled /\ [][NextVisible]_vars

\* C38: the registry used for create, cancel and sweep and the ledger read
\* by the queries behind /subscription-transactions are the same state:
\* every SubscriptionTransaction that a sweep has appended is in the list
\* that getTransactions returns, and in the list that getTransactionsByDonor
\* returns for its donor.
C38_SweepTransactionsVisible ==
  /\ query.op = "getTransactions" =>
       \A i \in DOMAIN transactions : InList(transactions[i], query.list)
  /\ query.op = "getTransactionsByDonor" =>
       \A i \in DOMAIN transactions :
         transactions[i].donorId = query.donorId => InList(transactions[i], query.list)

\* ------------------------------------------ creations that follow each other
\* The response of POST /subscriptions has been sent and the request is over:
\* another request may come in its place.  Requests come in the place of an
\* earlier one while fewer subscriptions exist than requests may be in
\* progress at once.
CreateReturn(p) ==
  /\ creq[p].pc \in {"created", "conflict", "error"}
  /\ Len(heap) < Cardinality(CreateIds)
  /\ creq' = [creq EXCEPT ![p] = IdleCreate]
  /\ UNCHANGED <<clock, llmVars, payVars, cache, subscriptions, heap, transactions,
                 backgroundJobInterval, proc, sweep, lastCancel, failures, lreq>>

NextReplace ==
  \/ Tick
  \/ \E p \in CreateIds, d \in Donors, a \in Amounts, i \in ReqIntervals, c \in CreateDescs :
       CreateRequest(p, d, a, i, c)
  \/ \E p \in CreateIds : CreateResume(p)
  \/ \E p \in CreateIds : CreateReturn(p)
  \/ \E d \in Donors : cancelSubscription(d)
  \/ \E w \in SweepIds : triggerChargeProcessing(w)
  \/ \E w \in SweepIds : SweepResume(w)

SpecReplace == InitDisabled /\ [][NextReplace]_vars

\* C39: a sweep charges current registry records only: at the moment a
\* SubscriptionTransaction is appended, the record that the registry holds
\* for its donorId has the id that the transaction carries as subscriptionId,
\* also when a create for the donor has replaced the record while the sweep
\* was suspended.
C39_ChargesCurrentRecord ==
  [][Appended =>
       LET ref == MapGet(subscriptions, LastTx.donorId)
       IN ref # 0 /\ heap[ref].id = LastTx.subscriptionId]_vars

\* C40: createSubscription is all-or-nothing: when it raises an error to its
\* caller, whatever the campaign analysis was (a result without a tags list
\* too), the registry is as it was before and no subscription of the request
\* has been stored.
C40_ErrorLeavesRegistry ==
  [][\A p \in CreateIds :
       (creq[p].pc # "error" /\ creq'[p].pc = "error") =>
         /\ subscriptions' = subscriptions
         /\ heap' = heap
         /\ creq'[p].subscription = 0]_vars
====
